---- MODULE Spec2Model ----
(***************************************************************************)
(* A model of src/captivate.js (companion-module-newblue-captivate): the   *)
(* feedback cache and its key derivation, the miss worklist and the cache  *)
(* checker, the debounced registry refresh, the connection life cycle,     *)
(* the promise wrapper of the scheduler methods and the feedback state     *)
(* resolver.                                                               *)
(*                                                                         *)
(* JavaScript strings are modelled as sequences of tokens (a token is a    *)
(* character or an indivisible word such as ".feedback."), so that         *)
(* concatenation, startsWith, split and match are computed, not assumed.  *)
(* JavaScript objects are functions whose DOMAIN is the set of own         *)
(* properties; an options object is the sequence of its name/value pairs   *)
(* in insertion order, which is the order JSON.stringify writes them in.   *)
(***************************************************************************)
EXTENDS Integers, Sequences, FiniteSets, TLC

VARIABLES
    localFeedbackCache,      \* this.localFeedbackCache: cache key -> state
    cacheOp,                 \* the cache operation performed last, with its arguments
    lastStored,              \* per (actorId, feedbackId, options): state of the last
                             \* cacheStore not yet invalidated, or Undefined
    pendingFeedbackChanges,  \* this.pendingFeedbackChanges: the ids marked "stale"
    cacheMisses,             \* this.cacheMisses: the miss worklist (an array)
    cacheBuilder,            \* this.cacheBuilder: TRUE when it holds a timer handle
    checkerTimers,           \* the number of live cache-checker timeouts
    batches,                 \* per rebuild with queries: its refills not yet settled
    batchFailures,           \* per rebuild with queries: how many of its refills failed
    images,                  \* this.images: image name -> base64 data
    checkRequested,          \* checkFeedbacks() was called and no poll came since
    fbOp,                    \* the feedback operation performed last, with what it did
    budget,                  \* inputs the environment may still deliver
    now,                     \* the time, in milliseconds
    debounceTimer,           \* debounce's timer: the deadline of the timeout it holds, or 0
    debounceTimeouts,        \* the deadlines of the live timeouts debounce created
    registryEvents,          \* registry-change events handled so far
    lastEventAt,             \* when the last registry-change event was handled, or -1
    lastRefreshAt,           \* when refreshIntegrations was last called by debounce, or -1
    refreshesInBurst,        \* calls of refreshIntegrations since the burst began
    config,                  \* this.config: which fields are set, and needsNewConfig
    status,                  \* the status last passed to updateStatus
    connectionWatchdog,      \* this.connectionWatchdog: TRUE when it holds a handle
    watchdogTimers,          \* the number of live reconnection intervals
    sockets,                 \* the WebSockets created by initQWebChannel
    failuresLeft,            \* transport failures the environment may still cause
    configsLeft,             \* configUpdated calls the operator may still make
    recovering,              \* a socket failed since the last configUpdated
    operatorConfig,          \* the configuration last passed to configUpdated
    sp,                      \* this.sp: the scheduler with its functions wrapped
    calls,                   \* the calls made through this.sp, each with its promise
    callbacksLeft,           \* callback invocations the scheduler may still make
    rawState,                \* the state _handleFeedbackState was called with
    fbState,                 \* the state object as the resolution mutates it
    playStates,              \* the reply to getValueForKey("newblue.automation.layerstate")
    layerImageData,          \* _handleFeedbackOverlayImage's local: the overlay's data
    encoderFails,            \* getBuffer will hand its callback an error
    codecResult,             \* how the compositing went: "none" before it settles
    instances,               \* the feedbacks (id, options) the console holds
    pollsDue,                \* the feedbacks the console has yet to poll after checkFeedbacks
    failedRefills,           \* the misses whose last refill failed, not queried since
    retries,                 \* the misses queried again after a failed refill
    refillFailuresLeft,      \* refill failures the engine may still cause
    resolvePc,               \* where the resolution stands
    titleObjects,            \* the title objects alive: per parsed reply still referred
                             \* to, its array of titles
    titles,                  \* this.titles: the array it refers to (a key of titleObjects)
    titlesByName,            \* this.titlesByName: title name -> a reference <<array,
                             \* position>> to its object
    titlesById,              \* this.titlesById: title id -> a reference to its object, or
                             \* Undefined before the first reply
    variableNames,           \* this.variableNames
    varData,                 \* this.varData: variable id -> title, varname, value
    varValues,               \* this.varValues: variable id -> value
    consoleDefinitions,      \* the ids last passed to setVariableDefinitions
    consoleValues,           \* the console's variable store, as setVariableValues fills it
    titleRequests,           \* getCurrentTitles calls awaiting their reply
    titleOp,                 \* the title operation performed last
    titleCallsLeft,          \* getCurrentTitles calls still to be made
    titleEventsLeft,         \* notifications the engine may still send
    engineState,             \* the engine's current state of the feedback followed
    changesLeft,             \* changes of that state the engine may still make
    wire,                    \* the messages sent by the engine and not yet received
    requests,                \* the requests sent to the engine and not yet answered
    tasks,                   \* the push handlers and refills suspended on an await,
                             \* in the order they began
    arrivals,                \* push notifications received so far
    pushStores               \* per cacheStore of a push handler, in the order they
                             \* were made: the arrival number of its notification

cacheOnlyVars == <<cacheOp, lastStored>>

feedbackVars == <<pendingFeedbackChanges, cacheMisses, cacheBuilder, checkerTimers,
                  batches, batchFailures, images, checkRequested, fbOp, budget>>

debounceVars == <<now, debounceTimer, debounceTimeouts, registryEvents, lastEventAt,
                  lastRefreshAt, refreshesInBurst>>

connVars == <<config, status, connectionWatchdog, watchdogTimers, sockets,
              failuresLeft, configsLeft, recovering, operatorConfig>>

promiseVars == <<sp, calls, callbacksLeft>>

resolveVars == <<rawState, fbState, playStates, layerImageData, encoderFails,
                 codecResult, resolvePc>>

\* the console's side of the feedbacks, followed where retries are checked
retryVars == <<instances, pollsDue, failedRefills, retries, refillFailuresLeft>>

titleVars == <<titleObjects, titles, titlesByName, titlesById, variableNames, varData, varValues,
               consoleDefinitions, consoleValues, titleRequests, titleOp,
               titleCallsLeft, titleEventsLeft>>

pushVars == <<engineState, changesLeft, wire, requests, tasks, arrivals, pushStores>>

\* what the operations of each part leave alone
notCacheVars == <<feedbackVars, debounceVars, connVars, promiseVars, resolveVars,
                  retryVars, titleVars, pushVars>>
notRetryVars == <<cacheOnlyVars, debounceVars, connVars, promiseVars, resolveVars,
                  titleVars, pushVars>>
notTitleVars == <<localFeedbackCache, cacheOnlyVars, feedbackVars, debounceVars,
                  connVars, promiseVars, resolveVars, retryVars, pushVars>>
notFeedbackVars == <<notRetryVars, retryVars>>
notDebounceVars == <<localFeedbackCache, cacheOnlyVars, feedbackVars, connVars,
                     promiseVars, resolveVars, retryVars,
                    titleVars, pushVars>>
notConnVars == <<localFeedbackCache, cacheOnlyVars, feedbackVars, debounceVars,
                 promiseVars, resolveVars, retryVars,
                    titleVars, pushVars>>
notPromiseVars == <<localFeedbackCache, cacheOnlyVars, feedbackVars, debounceVars,
                    connVars, resolveVars, retryVars,
                    titleVars, pushVars>>
notResolveVars == <<localFeedbackCache, cacheOnlyVars, feedbackVars, debounceVars,
                    connVars, promiseVars, retryVars,
                    titleVars, pushVars>>

vars == <<localFeedbackCache, cacheOp, lastStored, pendingFeedbackChanges,
          cacheMisses, cacheBuilder, checkerTimers, batches, batchFailures, images,
          checkRequested, fbOp, budget, now, debounceTimer, debounceTimeouts,
          registryEvents, lastEventAt, lastRefreshAt, refreshesInBurst,
          config, status, connectionWatchdog, watchdogTimers, sockets,
          failuresLeft, configsLeft, recovering, operatorConfig,
          sp, calls, callbacksLeft, rawState, fbState, playStates,
          layerImageData, encoderFails, codecResult, resolvePc,
          instances, pollsDue, failedRefills, retries, refillFailuresLeft,
          titleObjects, titles, titlesByName, titlesById, variableNames, varData,
          varValues, consoleDefinitions, consoleValues, titleRequests, titleOp,
          titleCallsLeft, titleEventsLeft, engineState, changesLeft, wire, requests,
          tasks, arrivals, pushStores>>

----------------------------------------------------------------------------
(* Bounds of the model *)

MaxOptionPairs == 2          \* name/value pairs in one options object
MaxEntries == 2              \* entries held by the cache at once
MaxEvents == 3               \* feedback polls, primes and pushes the environment delivers
MaxFairEvents == 2           \* the same, in the behaviours checked for liveness
MaxTimeSteps == 10           \* time steps the clock of the debounce model advances
MaxRegistryEvents == 4       \* registry-change events delivered
MaxSockets == 2              \* WebSockets connecting or open at once
MaxFailures == 2             \* transport failures the environment causes
MaxConfigs == 2              \* configUpdated calls (init makes the first)
MaxCalls == 2                \* calls made through the wrapped scheduler
MaxCallbacks == 2            \* invocations of completion callbacks by the scheduler
MaxRawFields == 3            \* own properties of a raw feedback state
MaxRetryEvents == 1          \* polls, primes and pushes where retries are checked
MaxRefillFailures == 1       \* refills that fail where retries are checked
MaxTimerEvents == 2          \* feedback polls, primes and pushes where both timers run
MaxTimerFailures == 2        \* transport failures where both timers run
MaxTimerConfigs == 1         \* configUpdated calls where both timers run
MaxTimerSockets == 1         \* WebSockets connecting or open at once, likewise
MaxTitles == 2               \* titles in one reply to getTitleControlInfo
MaxEventVars == 1            \* name/value pairs in one data event
MaxTitleCalls == 2           \* getCurrentTitles calls made
MaxTitleEvents == 1          \* notifications delivered
MaxChanges == 2              \* changes of the followed feedback the engine makes
MaxPushPolls == 3            \* polls of the followed feedback by the console

----------------------------------------------------------------------------
(* Strings and objects *)

\* JavaScript's undefined, as a value that compares with states
Undefined == [undefined |-> TRUE]

\* String.prototype.startsWith
StartsWith(s, p) == Len(p) <= Len(s) /\ SubSeq(s, 1, Len(p)) = p

\* the position of the first "~" of s, or 0
FirstTilde(s) ==
    IF \E i \in 1..Len(s) : s[i] = "~"
    THEN CHOOSE i \in 1..Len(s) : s[i] = "~" /\ \A j \in 1..(i - 1) : s[j] # "~"
    ELSE 0

\* the names of an options object, in insertion order
OptionNamesOf(options) == [i \in 1..Len(options) |-> options[i][1]]

\* two options objects hold the same name/value pairs
SamePairs(o1, o2) == {o1[i] : i \in 1..Len(o1)} = {o2[i] : i \in 1..Len(o2)}

\* JSON.stringify of an options object: the pairs in insertion order
RECURSIVE JSONpairs(_)
JSONpairs(options) ==
    IF Len(options) = 0 THEN <<>>
    ELSE <<options[1][1], ":", options[1][2]>>
         \o (IF Len(options) > 1 THEN <<",">> ELSE <<>>)
         \o JSONpairs(Tail(options))

JSONstringify(options) == <<"{">> \o JSONpairs(options) \o <<"}">>

\* The tokens JSON.stringify writes, and the hexadecimal digits of a digest
JsonTokens == <<"{", "}", ":", ",", "a", "b", "1", "2">>
HexDigits == <<"0", "1", "2", "3", "4", "5", "6", "7",
               "8", "9", "a", "b", "c", "d", "e", "f">>

TokenCode(t) == CHOOSE i \in 1..Len(JsonTokens) : JsonTokens[i] = t

\* crypto.createHash('md5').update(text).digest('hex'): a fixed-length,
\* order-sensitive fingerprint of the text.  MD5 itself is replaced by a
\* polynomial hash of 16 bits written as four hexadecimal digits; it has
\* no collision on the texts of this model (HashInjective).
RECURSIVE HashOf(_, _)
HashOf(text, h) ==
    IF Len(text) = 0 THEN h
    ELSE HashOf(Tail(text), (h * 31 + TokenCode(Head(text))) % 65536)

md5hex(text) ==
    LET h == HashOf(text, 7)
    IN  <<HexDigits[(h \div 4096) + 1], HexDigits[((h \div 256) % 16) + 1],
          HexDigits[((h \div 16) % 16) + 1], HexDigits[(h % 16) + 1]>>

\* makeCacheKeyUsingOptions(key, options)
makeCacheKeyUsingOptions(key, options) ==
    IF Len(options) > 0
    THEN key \o <<"+">> \o md5hex(JSONstringify(options))
    ELSE key

\* [actorId, feedbackId].join('~')
JoinIds(actorId, feedbackId) == actorId \o <<"~">> \o feedbackId

----------------------------------------------------------------------------
(* The inputs of the model *)

ActorIds == {<<"A">>, <<"A", "B">>}
FeedbackShapedId == <<"n", ".feedback.", "x">>
OtherShapedId == <<"n", ".action.", "x">>
FeedbackIds == {FeedbackShapedId}

OptionPairs == {<<"a", "1">>, <<"a", "2">>, <<"b", "1">>}

\* the options objects: at most MaxOptionPairs pairs, no name twice
OptionsSet ==
    {o \in UNION {[1..n -> OptionPairs] : n \in 0..MaxOptionPairs} :
        \A i, j \in 1..Len(o) : i # j => o[i][1] # o[j][1]}

States == {[value |-> TRUE], [imageName |-> "glow"]}

Triples == ActorIds \X FeedbackIds \X OptionsSet

KeyOf(t) == makeCacheKeyUsingOptions(JoinIds(t[1], t[2]), t[3])

\* the prefixes handed to cacheRemoveKeysWithPrefix
Prefixes == {<<"A">>, <<"A", "~">>, <<"A", "B">>,
             JoinIds(<<"A">>, FeedbackShapedId),
             JoinIds(<<"A">>, FeedbackShapedId) \o <<"+">>}

----------------------------------------------------------------------------
(* The feedback cache *)

\* the mutant of cacheStoreInto that keeps an entry already present
cacheStoreKeepingOld(cache, actorId, feedbackId, options, state) ==
    LET cachekey == makeCacheKeyUsingOptions(JoinIds(actorId, feedbackId), options)
    IN  [k \in DOMAIN cache \cup {cachekey} |->
            IF k \in DOMAIN cache THEN cache[k] ELSE state]

\* cacheStore: this.localFeedbackCache[cachekey] = state
cacheStoreInto(cache, actorId, feedbackId, options, state) ==
    LET cachekey == makeCacheKeyUsingOptions(JoinIds(actorId, feedbackId), options)
    IN  [k \in DOMAIN cache \cup {cachekey} |->
            IF k = cachekey THEN state ELSE cache[k]]

\* cacheGet: this.localFeedbackCache[cachekey]
cacheGetFrom(cache, actorId, feedbackId, options) ==
    LET cachekey == makeCacheKeyUsingOptions(JoinIds(actorId, feedbackId), options)
    IN  IF cachekey \in DOMAIN cache THEN cache[cachekey] ELSE Undefined

\* the mutant of cacheRemovePrefixFrom that deletes only the key equal to the prefix
cacheRemoveExactFrom(cache, prefix) ==
    [k \in {x \in DOMAIN cache : x # prefix} |-> cache[k]]

\* cacheRemoveKeysWithPrefix: for (key in cache) if (key.startsWith(prefix)) delete
RECURSIVE RemoveLoop(_, _, _)
RemoveLoop(cache, todo, prefix) ==
    IF todo = {} THEN cache
    ELSE LET key == CHOOSE k \in todo : TRUE
             next == IF StartsWith(key, prefix)
                     THEN [k \in DOMAIN cache \ {key} |-> cache[k]]
                     ELSE cache
         IN  RemoveLoop(next, todo \ {key}, prefix)

cacheRemovePrefixFrom(cache, prefix) == RemoveLoop(cache, DOMAIN cache, prefix)

EmptyCache == [k \in {} |-> Undefined]

NoOp == [name |-> "none", actorId |-> <<>>, feedbackId |-> <<>>, options |-> <<>>,
         state |-> Undefined, prefix |-> <<>>, deleted |-> 0]

NoFbOp == [name |-> "none", id |-> <<>>, options |-> <<>>, type |-> "none",
           result |-> Undefined, pushed |-> <<>>, issued |-> <<>>,
           rebuilt |-> FALSE, checked |-> FALSE, failedBefore |-> 0]

\* the state after construction of the parts a specification leaves alone
CacheOnlyIdle ==
    /\ cacheOp = NoOp
    /\ lastStored = [t \in {} |-> Undefined]

FeedbackIdle ==
    /\ pendingFeedbackChanges = {}
    /\ cacheMisses = <<>>
    /\ cacheBuilder = FALSE
    /\ checkerTimers = 0
    /\ batches = <<>>
    /\ batchFailures = <<>>
    /\ images = [n \in {} |-> ""]
    /\ checkRequested = FALSE
    /\ fbOp = NoFbOp
    /\ budget = 0

DebounceIdle ==
    /\ now = 0
    /\ debounceTimer = 0
    /\ debounceTimeouts = {}
    /\ registryEvents = 0
    /\ lastEventAt = -1
    /\ lastRefreshAt = -1
    /\ refreshesInBurst = 0

ConnIdle ==
    /\ config = [bonjour_host |-> FALSE, host |-> FALSE, port |-> FALSE,
                 needsNewConfig |-> FALSE]
    /\ status = "none"
    /\ connectionWatchdog = FALSE
    /\ watchdogTimers = 0
    /\ sockets = <<>>
    /\ failuresLeft = 0
    /\ configsLeft = 0
    /\ recovering = FALSE
    /\ operatorConfig = config

RetryIdle ==
    /\ instances = {}
    /\ pollsDue = {}
    /\ failedRefills = {}
    /\ retries = {}
    /\ refillFailuresLeft = 0

NoTitleOp == [name |-> "none", msg |-> <<>>, known |-> FALSE, awaiting |-> 0]

\* the constructor sets titlesByName, titles, variableNames and varData, and
\* leaves titlesById and varValues unset
TitleIdle ==
    /\ titleObjects = <<<<>>>>
    /\ titles = 1
    /\ titlesByName = <<>>
    /\ titlesById = Undefined
    /\ variableNames = <<>>
    /\ varData = <<>>
    /\ varValues = Undefined
    /\ consoleDefinitions = {}
    /\ consoleValues = <<>>
    /\ titleRequests = 0
    /\ titleOp = NoTitleOp
    /\ titleCallsLeft = 0
    /\ titleEventsLeft = 0

PushIdle ==
    /\ engineState = <<>>
    /\ changesLeft = 0
    /\ wire = <<>>
    /\ requests = <<>>
    /\ tasks = <<>>
    /\ arrivals = 0
    /\ pushStores = <<>>

PromiseIdle ==
    /\ sp = <<>>
    /\ calls = <<>>
    /\ callbacksLeft = 0

ResolveIdle ==
    /\ rawState = <<>>
    /\ fbState = <<>>
    /\ playStates = <<>>
    /\ layerImageData = Undefined
    /\ encoderFails = FALSE
    /\ codecResult = "none"
    /\ resolvePc = "none"

CacheInit ==
    /\ localFeedbackCache = EmptyCache
    /\ cacheOp = NoOp
    /\ lastStored = [t \in Triples |-> Undefined]
    /\ FeedbackIdle
    /\ DebounceIdle
    /\ ConnIdle
    /\ TitleIdle
    /\ PushIdle
    /\ PromiseIdle
    /\ ResolveIdle
    /\ RetryIdle

CacheStore(actorId, feedbackId, options, state) ==
    LET cache == cacheStoreInto(localFeedbackCache, actorId, feedbackId, options, state)
    IN  /\ Cardinality(DOMAIN cache) <= MaxEntries
        /\ localFeedbackCache' = cache
        /\ cacheOp' = [NoOp EXCEPT !.name = "cacheStore", !.actorId = actorId,
                          !.feedbackId = feedbackId, !.options = options,
                          !.state = state]
        /\ lastStored' = [lastStored EXCEPT ![<<actorId, feedbackId, options>>] = state]
        /\ UNCHANGED notCacheVars

CacheGet(actorId, feedbackId, options) ==
    /\ cacheOp' = [NoOp EXCEPT !.name = "cacheGet", !.actorId = actorId,
                      !.feedbackId = feedbackId, !.options = options,
                      !.state = cacheGetFrom(localFeedbackCache, actorId,
                                             feedbackId, options)]
    /\ UNCHANGED <<localFeedbackCache, lastStored>>
    /\ UNCHANGED notCacheVars

CacheRemoveKeysWithPrefix(prefix) ==
    /\ localFeedbackCache' = cacheRemovePrefixFrom(localFeedbackCache, prefix)
    /\ cacheOp' = [NoOp EXCEPT !.name = "cacheRemoveKeysWithPrefix", !.prefix = prefix,
                      !.deleted = Cardinality(DOMAIN localFeedbackCache)
                                  - Cardinality(DOMAIN localFeedbackCache')]
    /\ lastStored' = [t \in Triples |->
                        IF StartsWith(KeyOf(t), prefix) THEN Undefined
                        ELSE lastStored[t]]
    /\ UNCHANGED notCacheVars

DoCacheStore == \E t \in Triples, s \in States : CacheStore(t[1], t[2], t[3], s)
DoCacheGet == \E t \in Triples : CacheGet(t[1], t[2], t[3])
DoCacheRemove == \E p \in Prefixes : CacheRemoveKeysWithPrefix(p)

CacheNext == DoCacheStore \/ DoCacheGet \/ DoCacheRemove

SpecCache == CacheInit /\ [][CacheNext]_vars

\* the fingerprint has no collision on the options of the model
HashInjective ==
    \A o1, o2 \in OptionsSet :
        md5hex(JSONstringify(o1)) = md5hex(JSONstringify(o2)) => o1 = o2

----------------------------------------------------------------------------
(* Claims about the feedback cache, checked under SpecCache *)

\* C1 (as claimed): after cacheStore(actorId, feedbackId, options, state) with
\* non-empty options, every options object holding the same name/value pairs in
\* any insertion order derives the same cache key, and cacheGet under it
\* returns the stored state.
C1_KeyIgnoresInsertionOrder ==
    (cacheOp.name = "cacheStore" /\ Len(cacheOp.options) > 0) =>
        \A o2 \in OptionsSet :
            SamePairs(cacheOp.options, o2) =>
                /\ makeCacheKeyUsingOptions(
                       JoinIds(cacheOp.actorId, cacheOp.feedbackId), o2)
                   = makeCacheKeyUsingOptions(
                       JoinIds(cacheOp.actorId, cacheOp.feedbackId), cacheOp.options)
                /\ cacheGetFrom(localFeedbackCache, cacheOp.actorId,
                                cacheOp.feedbackId, o2) = cacheOp.state

\* C2: after any sequence of cache operations, cacheGet(actorId, feedbackId,
\* options) returns the state of the most recent cacheStore with the identical
\* triple, and undefined when there was none since the start or since the last
\* invalidation of a prefix of its key.
C2_GetReturnsLastStore ==
    /\ \A t \in Triples :
           cacheGetFrom(localFeedbackCache, t[1], t[2], t[3]) = lastStored[t]
    /\ cacheOp.name = "cacheGet" =>
           cacheOp.state
           = lastStored[<<cacheOp.actorId, cacheOp.feedbackId, cacheOp.options>>]

\* a cacheGet that returns a stored state while another entry is cached too
C2_Witness ==
    /\ cacheOp.name = "cacheGet"
    /\ cacheOp.state # Undefined
    /\ Cardinality(DOMAIN localFeedbackCache) > 1

\* C3: cacheRemoveKeysWithPrefix(p) removes every entry whose key starts with p
\* and no other: afterwards no key starts with p, and every entry whose key does
\* not start with p is still there with its value unchanged.
C3_PrefixRemovalFrame ==
    [][cacheOp'.name = "cacheRemoveKeysWithPrefix" =>
          /\ \A k \in DOMAIN localFeedbackCache' : ~StartsWith(k, cacheOp'.prefix)
          /\ DOMAIN localFeedbackCache' \subseteq DOMAIN localFeedbackCache
          /\ \A k \in DOMAIN localFeedbackCache :
                 ~StartsWith(k, cacheOp'.prefix) =>
                     /\ k \in DOMAIN localFeedbackCache'
                     /\ localFeedbackCache'[k] = localFeedbackCache[k]]_vars

\* an invalidation that deleted an entry and kept one that shares a shorter prefix
C3_Witness ==
    /\ cacheOp.name = "cacheRemoveKeysWithPrefix"
    /\ cacheOp.deleted > 0
    /\ \E k \in DOMAIN localFeedbackCache :
           StartsWith(k, SubSeq(cacheOp.prefix, 1, 1))

----------------------------------------------------------------------------
(* The miss worklist, the rebuild and the cache checker *)

\* actorFeedbackId.split('~', 2): the first two '~'-separated segments; a
\* missing second segment (undefined) is the empty string, which is as falsy
\* and joins to the same text
SplitTilde(id) ==
    LET i == FirstTilde(id)
        rest == IF i = 0 THEN <<>> ELSE SubSeq(id, i + 1, Len(id))
        j == FirstTilde(rest)
    IN  <<IF i = 0 THEN id ELSE SubSeq(id, 1, i - 1),
          IF j = 0 THEN rest ELSE SubSeq(rest, 1, j - 1)>>

\* feedbackId.match(/\.feedback\./)
IsFeedbackId(feedbackId) == \E i \in 1..Len(feedbackId) : feedbackId[i] = ".feedback."

\* cacheGetFromFullId
cacheGetFromFullId(cache, actorFeedbackId, options) ==
    LET ids == SplitTilde(actorFeedbackId)
    IN  cacheGetFrom(cache, ids[1], ids[2], options)

\* an object without one property, and with one property set
Without(obj, f) == [k \in DOMAIN obj \ {f} |-> obj[k]]
WithField(obj, f, v) == [k \in DOMAIN obj \cup {f} |-> IF k = f THEN v ELSE obj[k]]

\* the number of misses of a worklist (or queries of a batch) for one composite id
RECURSIVE CountId(_, _)
CountId(list, id) ==
    IF Len(list) = 0 THEN 0
    ELSE (IF Head(list).id = id THEN 1 ELSE 0) + CountId(Tail(list), id)

\* rebuildFeedbackCache, the while loop: pops the misses from the end, clears
\* the staleness mark of each and issues a query for each feedback-shaped id
RECURSIVE RebuildLoop(_, _, _)
RebuildLoop(misses, pending, issued) ==
    IF Len(misses) = 0 THEN [pending |-> pending, issued |-> issued]
    ELSE LET miss == misses[Len(misses)]
             ids == SplitTilde(miss.id)
             valid == Len(ids[1]) > 0 /\ Len(ids[2]) > 0 /\ IsFeedbackId(ids[2])
             query == [id |-> miss.id, actorId |-> ids[1], feedbackId |-> ids[2],
                       options |-> miss.options]
         IN  RebuildLoop(SubSeq(misses, 1, Len(misses) - 1), pending \ {miss.id},
                         IF valid THEN Append(issued, query) ELSE issued)

\* the mutant of startCacheChecker that arms a new timeout without clearing the
\* one it holds
startCacheCheckerWithoutStop(misses, pending, handleLive, timers, bs) ==
    LET r == RebuildLoop(misses, pending, <<>>)
    IN  IF Len(misses) > 0
        THEN [cacheMisses |-> <<>>, pending |-> r.pending, cacheBuilder |-> TRUE,
              checkerTimers |-> timers + 1,
              batches |-> IF Len(r.issued) > 0 THEN Append(bs, r.issued) ELSE bs,
              issued |-> r.issued, rebuilt |-> TRUE]
        ELSE [cacheMisses |-> misses, pending |-> pending, cacheBuilder |-> handleLive,
              checkerTimers |-> timers, batches |-> bs,
              issued |-> <<>>, rebuilt |-> FALSE]

\* the mutant of startCacheChecker that arms the timer whatever the worklist holds
startCacheCheckerAlwaysArming(misses, pending, handleLive, timers, bs) ==
    LET stopped == IF handleLive THEN timers - 1 ELSE timers
        r == RebuildLoop(misses, pending, <<>>)
    IN  [cacheMisses |-> <<>>, pending |-> r.pending, cacheBuilder |-> TRUE,
         checkerTimers |-> stopped + 1,
         batches |-> IF Len(r.issued) > 0 THEN Append(bs, r.issued) ELSE bs,
         issued |-> r.issued, rebuilt |-> Len(misses) > 0]

\* the mutant of startCacheChecker that waits for each refill on its own
startCacheCheckerCheckingEachRefill(misses, pending, handleLive, timers, bs) ==
    LET stopped == IF handleLive THEN timers - 1 ELSE timers
        r == RebuildLoop(misses, pending, <<>>)
    IN  IF Len(misses) > 0
        THEN [cacheMisses |-> <<>>, pending |-> r.pending, cacheBuilder |-> TRUE,
              checkerTimers |-> stopped + 1,
              batches |-> bs \o [i \in 1..Len(r.issued) |-> <<r.issued[i]>>],
              issued |-> r.issued, rebuilt |-> TRUE]
        ELSE [cacheMisses |-> misses, pending |-> pending, cacheBuilder |-> FALSE,
              checkerTimers |-> stopped, batches |-> bs,
              issued |-> <<>>, rebuilt |-> FALSE]

\* startCacheChecker (with stopCacheChecker and rebuildFeedbackCache, which it
\* calls): the values of the fields after the call.  handleLive: this.cacheBuilder
\* holds the handle of a timeout that has not fired.
startCacheChecker(misses, pending, handleLive, timers, bs) ==
    LET stopped == IF handleLive THEN timers - 1 ELSE timers
        r == RebuildLoop(misses, pending, <<>>)
    IN  IF Len(misses) > 0
        THEN [cacheMisses |-> <<>>, pending |-> r.pending, cacheBuilder |-> TRUE,
              checkerTimers |-> stopped + 1,
              batches |-> IF Len(r.issued) > 0 THEN Append(bs, r.issued) ELSE bs,
              issued |-> r.issued, rebuilt |-> TRUE]
        ELSE [cacheMisses |-> misses, pending |-> pending, cacheBuilder |-> FALSE,
              checkerTimers |-> stopped, batches |-> bs,
              issued |-> <<>>, rebuilt |-> FALSE]

\* handleFeedback, the value looked up and post-processed (imageName replaced
\* by the image data), before the boolean coercion
handleFeedbackResult(cache, imgs, id, options) ==
    LET result == cacheGetFromFullId(cache, id, options)
    IN  IF result # Undefined /\ "imageName" \in DOMAIN result
        THEN LET processed == Without(result, "imageName")
             IN  IF result.imageName \in DOMAIN imgs
                 THEN WithField(processed, "png64", imgs[result.imageName])
                 ELSE processed
        ELSE result

\* the mutant of handleFeedbackCache that post-processes the cached entry
\* itself instead of a copy of it
handleFeedbackCacheInPlace(cache, imgs, id, options) ==
    LET ids == SplitTilde(id)
        cachekey == makeCacheKeyUsingOptions(JoinIds(ids[1], ids[2]), options)
        result == cacheGetFromFullId(cache, id, options)
    IN  IF result # Undefined /\ "imageName" \in DOMAIN result
        THEN [cache EXCEPT ![cachekey] = handleFeedbackResult(cache, imgs, id, options)]
        ELSE cache

\* handleFeedback, the cache after the call: the entry found is copied into
\* a new object (Object.assign of its spread) before imageName is deleted and
\* png64 set, so that the cached objects stay as they are
handleFeedbackCache(cache, imgs, id, options) ==
    cache

\* the mutant of handleFeedbackMisses that records a miss twice
handleFeedbackMissesTwice(cache, pending, misses, id, options) ==
    IF cacheGetFromFullId(cache, id, options) = Undefined \/ id \in pending
    THEN misses \o <<[id |-> id, options |-> options], [id |-> id, options |-> options]>>
    ELSE misses

\* handleFeedback, the worklist after its pushes: a miss is recorded when the
\* key is absent, or present with its id marked stale
handleFeedbackMisses(cache, pending, misses, id, options) ==
    IF cacheGetFromFullId(cache, id, options) = Undefined \/ id \in pending
    THEN Append(misses, [id |-> id, options |-> options])
    ELSE misses

\* event.type == 'boolean' ? !!result?.value : result
CoerceResult(type, result) ==
    IF type = "boolean"
    THEN [boolean |-> (result # Undefined /\ "value" \in DOMAIN result /\ result.value = TRUE)]
    ELSE result

\* handleFeedback(event): the look-up, the miss it records, the checker it
\* starts and the value it returns
HandleFeedbackCall(id, options, type) ==
    LET misses == handleFeedbackMisses(localFeedbackCache, pendingFeedbackChanges,
                                       cacheMisses, id, options)
        c == startCacheChecker(misses, pendingFeedbackChanges, cacheBuilder,
                               checkerTimers, batches)
    IN  /\ cacheMisses' = c.cacheMisses
        /\ pendingFeedbackChanges' = c.pending
        /\ cacheBuilder' = c.cacheBuilder
        /\ checkerTimers' = c.checkerTimers
        /\ batches' = c.batches
        /\ batchFailures' = batchFailures \o [b \in 1..(Len(c.batches) - Len(batches)) |-> 0]
        /\ checkRequested' = FALSE
        /\ fbOp' = [NoFbOp EXCEPT !.name = "handleFeedback", !.id = id,
                       !.options = options, !.type = type,
                       !.result = CoerceResult(type,
                           handleFeedbackResult(localFeedbackCache, images, id, options)),
                       !.pushed = SubSeq(misses, Len(cacheMisses) + 1, Len(misses)),
                       !.issued = c.issued, !.rebuilt = c.rebuilt]
        /\ localFeedbackCache' = handleFeedbackCache(localFeedbackCache, images, id,
                                                     options)
        /\ UNCHANGED images

\* a poll of the console, one of those the environment may still deliver
HandleFeedback(id, options, type) ==
    /\ budget > 0
    /\ budget' = budget - 1
    /\ HandleFeedbackCall(id, options, type)
    /\ UNCHANGED notFeedbackVars

\* primeFeedbackState: records a miss for an absent key, starts nothing
PrimeFeedbackStateStep(id, options) ==
    /\ budget > 0
    /\ budget' = budget - 1
    /\ cacheMisses' = IF cacheGetFromFullId(localFeedbackCache, id, options) = Undefined
                      THEN Append(cacheMisses, [id |-> id, options |-> options])
                      ELSE cacheMisses
    /\ fbOp' = [NoFbOp EXCEPT !.name = "primeFeedbackState", !.id = id,
                   !.options = options]
    /\ UNCHANGED <<localFeedbackCache, pendingFeedbackChanges, cacheBuilder,
                   checkerTimers, batches, batchFailures, images, checkRequested>>

PrimeFeedbackState(id, options) ==
    PrimeFeedbackStateStep(id, options) /\ UNCHANGED notFeedbackVars

\* the feedback-change handler of connectCallbacks, with the state already
\* resolved: stores it, marks the id stale, asks the console to check
FeedbackChangeEventStep(actorId, feedbackId, options, state) ==
    /\ budget > 0
    /\ budget' = budget - 1
    /\ localFeedbackCache' = cacheStoreInto(localFeedbackCache, actorId, feedbackId,
                                            options, state)
    /\ pendingFeedbackChanges' = pendingFeedbackChanges \cup {JoinIds(actorId, feedbackId)}
    /\ checkRequested' = TRUE
    /\ fbOp' = [NoFbOp EXCEPT !.name = "feedbackChangeEvent",
                   !.id = JoinIds(actorId, feedbackId), !.options = options,
                   !.result = state, !.checked = TRUE]
    /\ UNCHANGED <<cacheMisses, cacheBuilder, checkerTimers, batches, batchFailures,
                   images>>

FeedbackChangeEvent(actorId, feedbackId, options, state) ==
    FeedbackChangeEventStep(actorId, feedbackId, options, state)
    /\ UNCHANGED notFeedbackVars

\* the timeout armed by startCacheChecker fires: startCacheChecker again
CheckerTickStep ==
    LET c == startCacheChecker(cacheMisses, pendingFeedbackChanges, FALSE,
                               checkerTimers - 1, batches)
    IN  /\ checkerTimers > 0
        /\ cacheMisses' = c.cacheMisses
        /\ pendingFeedbackChanges' = c.pending
        /\ cacheBuilder' = c.cacheBuilder
        /\ checkerTimers' = c.checkerTimers
        /\ batches' = c.batches
        /\ batchFailures' = batchFailures \o [b \in 1..(Len(c.batches) - Len(batches)) |-> 0]
        /\ fbOp' = [NoFbOp EXCEPT !.name = "checkerTick", !.issued = c.issued,
                       !.rebuilt = c.rebuilt]
        /\ UNCHANGED <<localFeedbackCache, images, checkRequested, budget>>

CheckerTick == CheckerTickStep /\ UNCHANGED notFeedbackVars

\* a sequence without its i-th element
RemoveAt(seq, i) == SubSeq(seq, 1, i - 1) \o SubSeq(seq, i + 1, Len(seq))

\* the batches after refill i of batch b settled, and whether that was its last
SettleIn(bs, b, i) ==
    LET left == RemoveAt(bs[b], i)
    IN  IF Len(left) = 0 THEN RemoveAt(bs, b) ELSE [bs EXCEPT ![b] = left]

\* the mutant of RefillSucceedsStep in which a failed refill of the rebuild
\* keeps the replies that come after it from being stored
RefillSucceedsStepUnlessFailed(b, i, state) ==
    /\ b \in 1..Len(batches)
    /\ i \in 1..Len(batches[b])
    /\ localFeedbackCache' =
          IF batchFailures[b] > 0 THEN localFeedbackCache
          ELSE cacheStoreInto(localFeedbackCache, batches[b][i].actorId,
                              batches[b][i].feedbackId, batches[b][i].options, state)
    /\ batches' = SettleIn(batches, b, i)
    /\ batchFailures' = IF Len(batches[b]) = 1 THEN RemoveAt(batchFailures, b)
                        ELSE batchFailures
    /\ checkRequested' = (checkRequested \/ Len(batches[b]) = 1)
    /\ fbOp' = [NoFbOp EXCEPT !.name = "refillSucceeds", !.id = batches[b][i].id,
                   !.options = batches[b][i].options, !.result = state,
                   !.checked = (Len(batches[b]) = 1),
                   !.failedBefore = batchFailures[b]]
    /\ UNCHANGED <<pendingFeedbackChanges, cacheMisses, cacheBuilder, checkerTimers,
                   images, budget>>

\* rebuildFeedbackCache, .then of a query: the reply is stored, the promise
\* resolves; Promise.allSettled calls checkFeedbacks after the last of the batch
RefillSucceedsStep(b, i, state) ==
    /\ b \in 1..Len(batches)
    /\ i \in 1..Len(batches[b])
    /\ localFeedbackCache' = cacheStoreInto(localFeedbackCache, batches[b][i].actorId,
                                 batches[b][i].feedbackId, batches[b][i].options, state)
    /\ batches' = SettleIn(batches, b, i)
    /\ batchFailures' = IF Len(batches[b]) = 1 THEN RemoveAt(batchFailures, b)
                        ELSE batchFailures
    /\ checkRequested' = (checkRequested \/ Len(batches[b]) = 1)
    /\ fbOp' = [NoFbOp EXCEPT !.name = "refillSucceeds", !.id = batches[b][i].id,
                   !.options = batches[b][i].options, !.result = state,
                   !.checked = (Len(batches[b]) = 1),
                   !.failedBefore = batchFailures[b]]
    /\ UNCHANGED <<pendingFeedbackChanges, cacheMisses, cacheBuilder, checkerTimers,
                   images, budget>>

RefillSucceeds(b, i, state) ==
    RefillSucceedsStep(b, i, state) /\ UNCHANGED notFeedbackVars

\* the mutant of RefillFailsStep in which a failure does not count as settled:
\* checkFeedbacks is not called when the last refill of a rebuild fails
RefillFailsStepRejecting(b, i) ==
    /\ b \in 1..Len(batches)
    /\ i \in 1..Len(batches[b])
    /\ batches' = SettleIn(batches, b, i)
    /\ batchFailures' = IF Len(batches[b]) = 1 THEN RemoveAt(batchFailures, b)
                        ELSE [batchFailures EXCEPT ![b] = @ + 1]
    /\ checkRequested' = checkRequested
    /\ fbOp' = [NoFbOp EXCEPT !.name = "refillFails", !.id = batches[b][i].id,
                   !.options = batches[b][i].options]
    /\ UNCHANGED <<localFeedbackCache, pendingFeedbackChanges, cacheMisses,
                   cacheBuilder, checkerTimers, images, budget>>

\* rebuildFeedbackCache, .catch of a query: the promise resolves all the same
RefillFailsStep(b, i) ==
    /\ b \in 1..Len(batches)
    /\ i \in 1..Len(batches[b])
    /\ batches' = SettleIn(batches, b, i)
    /\ batchFailures' = IF Len(batches[b]) = 1 THEN RemoveAt(batchFailures, b)
                        ELSE [batchFailures EXCEPT ![b] = @ + 1]
    /\ checkRequested' = (checkRequested \/ Len(batches[b]) = 1)
    /\ fbOp' = [NoFbOp EXCEPT !.name = "refillFails", !.id = batches[b][i].id,
                   !.options = batches[b][i].options,
                   !.checked = (Len(batches[b]) = 1),
                   !.failedBefore = batchFailures[b]]
    /\ UNCHANGED <<localFeedbackCache, pendingFeedbackChanges, cacheMisses,
                   cacheBuilder, checkerTimers, images, budget>>

RefillFails(b, i) == RefillFailsStep(b, i) /\ UNCHANGED notFeedbackVars

\* the inputs of the feedback operations
CompositeIds == {JoinIds(<<"A">>, FeedbackShapedId), JoinIds(<<"A">>, OtherShapedId)}
FbOptions == {<<>>, <<<<"a", "1">>>>}
FbTypes == {"boolean", "advanced"}
ImageStores == {[n \in {} |-> ""], [n \in {"glow"} |-> "glowpng"]}

FeedbackStart(events) ==
    /\ localFeedbackCache = EmptyCache
    /\ CacheOnlyIdle
    /\ DebounceIdle
    /\ ConnIdle
    /\ TitleIdle
    /\ PushIdle
    /\ PromiseIdle
    /\ ResolveIdle
    /\ RetryIdle
    /\ pendingFeedbackChanges = {}
    /\ cacheMisses = <<>>
    /\ cacheBuilder = FALSE
    /\ checkerTimers = 0
    /\ batches = <<>>
    /\ batchFailures = <<>>
    /\ images \in ImageStores
    /\ checkRequested = FALSE
    /\ fbOp = NoFbOp
    /\ budget = events

FeedbackInit == FeedbackStart(MaxEvents)

DoHandleFeedback ==
    \E id \in CompositeIds, o \in FbOptions, ty \in FbTypes : HandleFeedback(id, o, ty)
DoPrimeFeedbackState ==
    \E id \in CompositeIds, o \in FbOptions : PrimeFeedbackState(id, o)
DoFeedbackChangeEvent ==
    \E o \in FbOptions, st \in States :
        FeedbackChangeEvent(<<"A">>, FeedbackShapedId, o, st)
DoRefillSucceeds ==
    \E b \in 1..MaxEvents, i \in 1..(MaxEvents + 1), st \in States :
        RefillSucceeds(b, i, st)
DoRefillFails ==
    \E b \in 1..MaxEvents, i \in 1..(MaxEvents + 1) : RefillFails(b, i)

FeedbackNext ==
    \/ DoHandleFeedback
    \/ DoPrimeFeedbackState
    \/ DoFeedbackChangeEvent
    \/ CheckerTick
    \/ DoRefillSucceeds
    \/ DoRefillFails

SpecFeedback == FeedbackInit /\ [][FeedbackNext]_vars

\* timers fire and the started checker runs: the scheduling of setTimeout
FairFeedback ==
    FeedbackStart(MaxFairEvents) /\ [][FeedbackNext]_vars /\ WF_vars(CheckerTick)

----------------------------------------------------------------------------
(* The console re-polling its feedbacks after checkFeedbacks *)

\* the (id, options) pairs of a list of queries
PairsOf(queries) == {<<queries[i].id, queries[i].options>> : i \in 1..Len(queries)}

\* what the console and the engine saw of the step just taken: the feedbacks
\* the console holds are those it polled or subscribed; checkFeedbacks makes it
\* poll them all; a miss is failed from the failure of its refill until a query
\* is issued for it again
RetryBookkeeping ==
    LET this == <<fbOp'.id, fbOp'.options>>
    IN  /\ instances' = IF fbOp'.name \in {"handleFeedback", "primeFeedbackState"}
                        THEN instances \cup {this}
                        ELSE instances
        /\ pollsDue' = IF fbOp'.checked THEN instances'
                       ELSE IF fbOp'.name = "handleFeedback" THEN pollsDue \ {this}
                       ELSE pollsDue
        /\ failedRefills' =
              (IF fbOp'.name = "refillFails" THEN failedRefills \cup {this}
                                             ELSE failedRefills)
                  \ PairsOf(fbOp'.issued)
        /\ retries' = retries \cup (failedRefills \cap PairsOf(fbOp'.issued))

\* the console polls a feedback because checkFeedbacks asked it to
ConsolePoll(id, options, type) ==
    /\ <<id, options>> \in pollsDue
    /\ HandleFeedbackCall(id, options, type)
    /\ RetryBookkeeping
    /\ UNCHANGED <<budget, refillFailuresLeft>>
    /\ UNCHANGED notRetryVars

\* a poll the console makes of its own accord
RetryHandleFeedback(id, options, type) ==
    /\ budget > 0
    /\ budget' = budget - 1
    /\ HandleFeedbackCall(id, options, type)
    /\ RetryBookkeeping
    /\ UNCHANGED refillFailuresLeft
    /\ UNCHANGED notRetryVars

RetryPrimeFeedbackState(id, options) ==
    /\ PrimeFeedbackStateStep(id, options)
    /\ RetryBookkeeping
    /\ UNCHANGED refillFailuresLeft
    /\ UNCHANGED notRetryVars

RetryFeedbackChangeEvent(actorId, feedbackId, options, state) ==
    /\ FeedbackChangeEventStep(actorId, feedbackId, options, state)
    /\ RetryBookkeeping
    /\ UNCHANGED refillFailuresLeft
    /\ UNCHANGED notRetryVars

RetryCheckerTick ==
    /\ CheckerTickStep
    /\ RetryBookkeeping
    /\ UNCHANGED refillFailuresLeft
    /\ UNCHANGED notRetryVars

RetryRefillSucceeds(b, i, state) ==
    /\ RefillSucceedsStep(b, i, state)
    /\ RetryBookkeeping
    /\ UNCHANGED refillFailuresLeft
    /\ UNCHANGED notRetryVars

RetryRefillFails(b, i) ==
    /\ refillFailuresLeft > 0
    /\ refillFailuresLeft' = refillFailuresLeft - 1
    /\ RefillFailsStep(b, i)
    /\ RetryBookkeeping
    /\ UNCHANGED notRetryVars

RetryInit ==
    /\ localFeedbackCache = EmptyCache
    /\ CacheOnlyIdle
    /\ DebounceIdle
    /\ ConnIdle
    /\ TitleIdle
    /\ PushIdle
    /\ PromiseIdle
    /\ ResolveIdle
    /\ pendingFeedbackChanges = {}
    /\ cacheMisses = <<>>
    /\ cacheBuilder = FALSE
    /\ checkerTimers = 0
    /\ batches = <<>>
    /\ batchFailures = <<>>
    /\ images \in ImageStores
    /\ checkRequested = FALSE
    /\ fbOp = NoFbOp
    /\ budget = MaxRetryEvents
    /\ instances = {}
    /\ pollsDue = {}
    /\ failedRefills = {}
    /\ retries = {}
    /\ refillFailuresLeft = MaxRefillFailures

DoConsolePoll ==
    \E id \in CompositeIds, o \in FbOptions, ty \in FbTypes : ConsolePoll(id, o, ty)
DoRetryHandleFeedback ==
    \E id \in CompositeIds, o \in FbOptions, ty \in FbTypes :
        RetryHandleFeedback(id, o, ty)
DoRetryPrimeFeedbackState ==
    \E id \in CompositeIds, o \in FbOptions : RetryPrimeFeedbackState(id, o)
DoRetryFeedbackChangeEvent ==
    \E o \in FbOptions, st \in States :
        RetryFeedbackChangeEvent(<<"A">>, FeedbackShapedId, o, st)
RefillSettles ==
    \E b \in 1..Len(batches) : \E i \in 1..Len(batches[b]) :
        \/ \E st \in States : RetryRefillSucceeds(b, i, st)
        \/ RetryRefillFails(b, i)

RetryNext ==
    \/ DoConsolePoll
    \/ DoRetryHandleFeedback
    \/ DoRetryPrimeFeedbackState
    \/ DoRetryFeedbackChangeEvent
    \/ RetryCheckerTick
    \/ RefillSettles

SpecRetry == RetryInit /\ [][RetryNext]_vars

\* the engine answers or fails the queries it is sent
FairRetry == SpecRetry /\ WF_vars(RefillSettles)

\* the console polls the feedbacks it is asked to check: no poll stays due
ConsoleRepolls == []<>(pollsDue = {})

----------------------------------------------------------------------------
(* Claims about handleFeedback and the cache checker *)

\* C4: a handleFeedback call of type 'boolean' for a feedback-shaped composite
\* id whose derived key has no cache entry returns false and records exactly
\* one miss, for that id; the rebuild it starts issues one refill query for the
\* id on its account, that is one more than for the misses of the id that were
\* already waiting in the worklist.
C4_MissReturnsFalseOneQuery ==
    [][(/\ fbOp'.name = "handleFeedback"
        /\ fbOp'.type = "boolean"
        /\ IsFeedbackId(SplitTilde(fbOp'.id)[2])
        /\ cacheGetFromFullId(localFeedbackCache, fbOp'.id, fbOp'.options) = Undefined)
       => /\ fbOp'.result = [boolean |-> FALSE]
          /\ fbOp'.pushed = <<[id |-> fbOp'.id, options |-> fbOp'.options]>>
          /\ CountId(fbOp'.issued, fbOp'.id) = CountId(cacheMisses, fbOp'.id) + 1
          /\ \E i \in 1..Len(fbOp'.issued) :
                 /\ fbOp'.issued[i].id = fbOp'.id
                 /\ fbOp'.issued[i].options = fbOp'.options]_vars

\* a boolean poll of a feedback-shaped id that missed the cache
C4_Witness ==
    /\ fbOp.name = "handleFeedback"
    /\ fbOp.type = "boolean"
    /\ IsFeedbackId(SplitTilde(fbOp.id)[2])
    /\ cacheGetFromFullId(localFeedbackCache, fbOp.id, fbOp.options) = Undefined
    /\ Len(fbOp.issued) = 1

\* C6: a cache checker started with a non-empty worklist invokes rebuild, which
\* drains it; a tick that finds the worklist empty invokes no rebuild and arms
\* no timer; and once no further miss is recorded, eventually no checker timer
\* is armed and rebuild is never invoked again.
C6_CheckerStops ==
    /\ [][(fbOp'.name \in {"handleFeedback", "checkerTick"}
           /\ Len(cacheMisses) + Len(fbOp'.pushed) > 0)
          => (fbOp'.rebuilt /\ Len(cacheMisses') = 0 /\ cacheBuilder')]_vars
    /\ [][(fbOp'.name = "checkerTick" /\ Len(cacheMisses) = 0)
          => (~fbOp'.rebuilt /\ ~cacheBuilder' /\ checkerTimers' = 0)]_vars
    /\ <>[](~cacheBuilder /\ checkerTimers = 0)
    /\ <>[][~fbOp'.rebuilt]_vars

\* the checker was started, ticked on an empty worklist and armed nothing
C6_Witness ==
    /\ fbOp.name = "checkerTick"
    /\ ~fbOp.rebuilt
    /\ ~cacheBuilder
    /\ checkerTimers = 0
    /\ Len(batches) > 0

----------------------------------------------------------------------------
(* The debounced registry refresh *)

DebounceTimeout == 1000      \* debounce(func, timeout = 1000)
TimeStep == DebounceTimeout \div 4
MaxTime == MaxTimeSteps * TimeStep

\* the mutant of debounceCall that arms a timeout without clearing the last
debounceCallNoClear(timeouts, timer, t) ==
    [timeouts |-> timeouts \cup {t + DebounceTimeout}, timer |-> t + DebounceTimeout]

\* debounce, the returned function called at time t:
\* clearTimeout(timer); timer = setTimeout(..., timeout)
debounceCall(timeouts, timer, t) ==
    [timeouts |-> (timeouts \ {timer}) \cup {t + DebounceTimeout},
     timer |-> t + DebounceTimeout]

\* a timeout whose deadline has come fires before anything else runs
TimeoutDue == \E d \in debounceTimeouts : d <= now

\* the handler of _cmp_v1_handleActorRegistryChangeEvent: refreshCompanionDefinitions()
RegistryChangeEvent ==
    LET c == debounceCall(debounceTimeouts, debounceTimer, now)
        newBurst == lastEventAt < 0 \/ now - lastEventAt >= DebounceTimeout
    IN  /\ ~TimeoutDue
        /\ registryEvents < MaxRegistryEvents
        /\ now + DebounceTimeout <= MaxTime
        /\ registryEvents' = registryEvents + 1
        /\ debounceTimeouts' = c.timeouts
        /\ debounceTimer' = c.timer
        /\ lastEventAt' = now
        /\ refreshesInBurst' = IF newBurst THEN 0 ELSE refreshesInBurst
        /\ UNCHANGED <<now, lastRefreshAt>>
        /\ UNCHANGED notDebounceVars

\* the timeout callback of debounce: func(...args), that is refreshIntegrations
DebounceFire ==
    /\ \E d \in debounceTimeouts :
          /\ d <= now
          /\ debounceTimeouts' = debounceTimeouts \ {d}
    /\ lastRefreshAt' = now
    /\ refreshesInBurst' = refreshesInBurst + 1
    /\ UNCHANGED <<now, debounceTimer, registryEvents, lastEventAt>>
    /\ UNCHANGED notDebounceVars

\* time passes, up to the next deadline at most
TimePasses ==
    LET next == now + TimeStep
        due == {d \in debounceTimeouts : d <= next}
    IN  /\ ~TimeoutDue
        /\ next <= MaxTime
        /\ now' = IF due = {} THEN next
                  ELSE CHOOSE d \in due : \A e \in due : d <= e
        /\ UNCHANGED <<debounceTimer, debounceTimeouts, registryEvents, lastEventAt,
                       lastRefreshAt, refreshesInBurst>>
        /\ UNCHANGED notDebounceVars

DebounceInit ==
    /\ localFeedbackCache = EmptyCache
    /\ CacheOnlyIdle
    /\ FeedbackIdle
    /\ DebounceIdle
    /\ ConnIdle
    /\ TitleIdle
    /\ PushIdle
    /\ PromiseIdle
    /\ ResolveIdle
    /\ RetryIdle

DebounceNext == RegistryChangeEvent \/ DebounceFire \/ TimePasses

SpecDebounce == DebounceInit /\ [][DebounceNext]_vars

\* C5: for a burst of registry-change events, each less than the debounce delay
\* after the one before, refreshIntegrations is called exactly once, one delay
\* after the last event of the burst and never before it.
C5_OneRefreshPerBurst ==
    lastEventAt >= 0 =>
        /\ refreshesInBurst <= 1
        /\ refreshesInBurst = 1 => lastRefreshAt = lastEventAt + DebounceTimeout
        /\ now > lastEventAt + DebounceTimeout => refreshesInBurst = 1
        /\ (now = lastEventAt + DebounceTimeout /\ ~TimeoutDue) => refreshesInBurst = 1

\* a burst of three events ended with its one refresh
C5_Witness ==
    /\ registryEvents >= 3
    /\ refreshesInBurst = 1
    /\ lastRefreshAt = lastEventAt + DebounceTimeout
    /\ lastEventAt > 0
    /\ lastEventAt < DebounceTimeout

----------------------------------------------------------------------------
(* The connection life cycle: configUpdated, initQWebChannel and the socket
   handlers *)

FreeSocket == [state |-> "free", errored |-> FALSE, handshake |-> "none", ok |-> FALSE]
NewSocket == [FreeSocket EXCEPT !.state = "connecting"]

\* initQWebChannel: serverUrl is not null
Resolvable(cfg) == cfg.bonjour_host \/ (cfg.host /\ cfg.port)

HasFreeSlot(socks) == \E s \in 1..Len(socks) : socks[s].state = "free"

\* initQWebChannel: with a server URL, reports Connecting and creates a socket
initQWebChannel(cfg, st, socks) ==
    IF Resolvable(cfg)
    THEN LET slot == CHOOSE s \in 1..Len(socks) : socks[s].state = "free"
         IN  [status |-> "Connecting", sockets |-> [socks EXCEPT ![slot] = NewSocket]]
    ELSE [status |-> st, sockets |-> socks]

\* the configurations the operator enters
Configs == {[bonjour_host |-> TRUE, host |-> FALSE, port |-> FALSE, needsNewConfig |-> FALSE],
            [bonjour_host |-> FALSE, host |-> TRUE, port |-> TRUE, needsNewConfig |-> FALSE],
            [bonjour_host |-> FALSE, host |-> FALSE, port |-> FALSE, needsNewConfig |-> FALSE]}

\* configUpdated (init calls it with the first configuration)
ConfigUpdated(cfg) ==
    LET c == initQWebChannel(cfg, status, sockets)
    IN  /\ configsLeft > 0
        /\ Resolvable(cfg) => HasFreeSlot(sockets)
        /\ configsLeft' = configsLeft - 1
        /\ config' = cfg
        /\ status' = c.status
        /\ sockets' = c.sockets
        /\ recovering' = FALSE
        /\ operatorConfig' = cfg
        /\ UNCHANGED <<connectionWatchdog, watchdogTimers, failuresLeft>>
        /\ UNCHANGED notConnVars

\* the setInterval callback armed by the 'close' handler
WatchdogTick ==
    LET c == initQWebChannel(config, status, sockets)
    IN  /\ watchdogTimers > 0
        /\ Resolvable(config) => HasFreeSlot(sockets)
        /\ status' = c.status
        /\ sockets' = c.sockets
        /\ UNCHANGED <<config, connectionWatchdog, watchdogTimers, failuresLeft,
                       configsLeft, recovering, operatorConfig>>
        /\ UNCHANGED notConnVars

\* socket.on('open'): clears the watchdog and starts the QWebChannel
SocketOpen(s) ==
    /\ sockets[s].state = "connecting"
    /\ ~sockets[s].errored
    /\ sockets' = [sockets EXCEPT ![s].state = "open"]
    /\ connectionWatchdog' = FALSE
    /\ watchdogTimers' = IF connectionWatchdog THEN watchdogTimers - 1 ELSE watchdogTimers
    /\ UNCHANGED <<config, status, failuresLeft, configsLeft, recovering,
                   operatorConfig>>
    /\ UNCHANGED notConnVars

\* the mutant of channelReady that reports Ok before the handshake is answered
channelReadyReportingOk(sock, st) ==
    [socket |-> [sock EXCEPT !.handshake = "sent", !.ok = TRUE], status |-> "Ok"]

\* the callback of new QWebChannelEx(socket, ...) up to its await: the set-up
\* calls, then notifyClientConnected is sent and the reply awaited
channelReady(sock, st) ==
    [socket |-> [sock EXCEPT !.handshake = "sent"], status |-> st]

ChannelReady(s) ==
    LET c == channelReady(sockets[s], status)
    IN  /\ sockets[s].state = "open"
        /\ sockets[s].handshake = "none"
        /\ sockets' = [sockets EXCEPT ![s] = c.socket]
        /\ status' = c.status
        /\ UNCHANGED <<config, connectionWatchdog, watchdogTimers, failuresLeft,
                       configsLeft, recovering, operatorConfig>>
        /\ UNCHANGED notConnVars

\* the rest of that callback, once the reply of notifyClientConnected has come:
\* hostVersionInfo is parsed and updateStatus(InstanceStatus.Ok) called
HandshakeReply(s) ==
    /\ sockets[s].state = "open"
    /\ sockets[s].handshake = "sent"
    /\ sockets' = [sockets EXCEPT ![s].handshake = "replied", ![s].ok = TRUE]
    /\ status' = "Ok"
    /\ UNCHANGED <<config, connectionWatchdog, watchdogTimers, failuresLeft,
                   configsLeft, recovering, operatorConfig>>
    /\ UNCHANGED notConnVars

\* socket.on('error'): needsNewConfig is set, port and host are emptied
configAfterError(cfg) ==
    [cfg EXCEPT !.needsNewConfig = TRUE, !.port = FALSE, !.host = FALSE]

\* socket.on('error')
SocketError(s) ==
    /\ sockets[s].state \in {"connecting", "open"}
    /\ ~sockets[s].errored
    /\ failuresLeft > 0
    /\ failuresLeft' = failuresLeft - 1
    /\ sockets' = [sockets EXCEPT ![s].errored = TRUE]
    /\ status' = "BadConfig"
    /\ config' = configAfterError(config)
    /\ recovering' = TRUE
    /\ UNCHANGED <<connectionWatchdog, watchdogTimers, configsLeft, operatorConfig>>
    /\ UNCHANGED notConnVars

\* socket.on('close'), after an 'error' of the socket or on its own: reports
\* Disconnected and arms the watchdog unless one is held
SocketClose(s) ==
    /\ sockets[s].state \in {"connecting", "open"}
    /\ sockets[s].errored \/ failuresLeft > 0
    /\ failuresLeft' = IF sockets[s].errored THEN failuresLeft ELSE failuresLeft - 1
    /\ sockets' = [sockets EXCEPT ![s] = FreeSocket]
    /\ status' = "Disconnected"
    /\ connectionWatchdog' = TRUE
    /\ watchdogTimers' = IF connectionWatchdog THEN watchdogTimers ELSE watchdogTimers + 1
    /\ recovering' = TRUE
    /\ UNCHANGED <<config, configsLeft, operatorConfig>>
    /\ UNCHANGED notConnVars

ConnInit ==
    /\ localFeedbackCache = EmptyCache
    /\ CacheOnlyIdle
    /\ FeedbackIdle
    /\ DebounceIdle
    /\ PromiseIdle
    /\ ResolveIdle
    /\ RetryIdle
    /\ TitleIdle
    /\ PushIdle
    /\ config = [bonjour_host |-> FALSE, host |-> FALSE, port |-> FALSE,
                 needsNewConfig |-> FALSE]
    /\ status = "none"
    /\ connectionWatchdog = FALSE
    /\ watchdogTimers = 0
    /\ sockets = [s \in 1..MaxSockets |-> FreeSocket]
    /\ failuresLeft = MaxFailures
    /\ configsLeft = MaxConfigs
    /\ recovering = FALSE
    /\ operatorConfig = config

DoConfigUpdated == \E cfg \in Configs : ConfigUpdated(cfg)
DoSocketOpen == \E s \in 1..MaxSockets : SocketOpen(s)
DoChannelReady == \E s \in 1..MaxSockets : ChannelReady(s)
DoHandshakeReply == \E s \in 1..MaxSockets : HandshakeReply(s)
DoSocketError == \E s \in 1..MaxSockets : SocketError(s)
DoSocketClose == \E s \in 1..MaxSockets : SocketClose(s)

ConnNext ==
    \/ DoConfigUpdated
    \/ WatchdogTick
    \/ DoSocketOpen
    \/ DoChannelReady
    \/ DoHandshakeReply
    \/ DoSocketError
    \/ DoSocketClose

SpecConn == ConnInit /\ [][ConnNext]_vars

\* a socket that emitted 'error' emits 'close'
CloseAfterError(s) == sockets[s].errored /\ SocketClose(s)

\* the interval fires, and a reachable engine accepts the connection, answers
\* the channel set-up and the handshake
FairConn ==
    /\ SpecConn
    /\ WF_vars(WatchdogTick)
    /\ \A s \in 1..MaxSockets :
          /\ WF_vars(SocketOpen(s))
          /\ WF_vars(ChannelReady(s))
          /\ WF_vars(HandshakeReply(s))
          /\ WF_vars(CloseAfterError(s))

----------------------------------------------------------------------------
(* Claims about the connection *)

\* C7 (as claimed): after a transport failure ('error' and/or 'close') of a
\* bridge configured with a resolvable address, with the engine reachable from
\* then on and no new configuration, the watchdog re-establishes the connection
\* and status Ok is reported again.
C7_WatchdogRecovers ==
    (recovering /\ Resolvable(operatorConfig)) ~> (status = "Ok" \/ ~recovering)

\* the same for a failure that leaves an address in the configuration: what the
\* code does guarantee
C7_RecoversWithAddress ==
    [](Resolvable(config)) => (recovering ~> (status = "Ok" \/ ~recovering))

\* C8: status Ok is reported for a connection only after its 'open' event and
\* after the reply to its notifyClientConnected handshake has been received;
\* a connection whose reply has not arrived has not reported Ok.
C8_OkOnlyAfterHandshake ==
    /\ \A s \in 1..MaxSockets :
           sockets[s].ok => (sockets[s].state = "open" /\ sockets[s].handshake = "replied")
    /\ status = "Ok" =>
           \E s \in 1..MaxSockets :
               sockets[s].state = "open" /\ sockets[s].handshake = "replied"

\* Ok is reported by one connection while another awaits its handshake reply
C8_Witness ==
    /\ status = "Ok"
    /\ \E s, t \in 1..MaxSockets :
           /\ sockets[s].ok
           /\ sockets[t].state = "open"
           /\ sockets[t].handshake = "sent"
           /\ ~sockets[t].ok

----------------------------------------------------------------------------
(* The scheduler wrapped in promises: promiseify and wrapScheduler *)

\* the entries of channel.objects.scheduler: methods taking a trailing callback,
\* and a signal, which is an object
Scheduler ==
    [k \in {"notifyClientConnected", "getValueForKey", "onNotify"} |->
        IF k = "onNotify" THEN [type |-> "object", name |-> k]
                          ELSE [type |-> "function", name |-> k]]

\* wrapScheduler: functions are replaced by promiseify(v), the rest is copied
wrapScheduler(scheduler) ==
    [k \in DOMAIN scheduler |->
        IF scheduler[k].type = "function"
        THEN [type |-> "promiseified", name |-> scheduler[k].name]
        ELSE scheduler[k]]

\* a promise: resolve and reject act on a pending promise only
PendingPromise == [state |-> "pending", value |-> ""]
resolvePromise(promise, v) ==
    IF promise.state = "pending" THEN [state |-> "resolved", value |-> v] ELSE promise
rejectPromise(promise, e) ==
    IF promise.state = "pending" THEN [state |-> "rejected", value |-> e] ELSE promise

\* the mutant of completionCallback that resolves without the value
completionCallbackDroppingValue(promise, e) == resolvePromise(promise, "")

\* the callback promiseify pushes: e => {resolve(e)}
completionCallback(promise, e) == resolvePromise(promise, e)

\* args.push(callback): the arguments func is called with
pushCallback(args, id) == Append(args, [callback |-> id])

\* catch (e) { reject(e) }
caught(promise, e) == rejectPromise(promise, e)

\* the arguments of the callers, and what the scheduler answers or throws
ArgLists == {<<>>, <<[arg |-> "key"]>>, <<[arg |-> "key"], [arg |-> "opts"]>>}
Replies == {"reply1", "reply2"}
Errors == {"TypeError"}

\* the function promiseify(func) returns, called with args: the promise is
\* created and func is entered with the callback as its last argument
PromiseifiedCall(k, args) ==
    /\ k \in DOMAIN sp
    /\ sp[k].type = "promiseified"
    /\ Len(calls) < MaxCalls
    /\ \A i \in 1..Len(calls) : calls[i].pc # "running"
    /\ calls' = Append(calls, [func |-> sp[k].name,
                               args |-> args,
                               received |-> pushCallback(args, Len(calls) + 1),
                               pc |-> "running",
                               promise |-> PendingPromise,
                               callbackValues |-> <<>>,
                               thrown |-> "",
                               first |-> "none"])
    /\ UNCHANGED <<sp, callbacksLeft>>
    /\ UNCHANGED notPromiseVars

\* the scheduler invokes the callback it was handed in call i, during func or
\* later, with the value v
InvokeCallback(i, v) ==
    /\ i \in 1..Len(calls)
    /\ callbacksLeft > 0
    /\ \A j \in 1..Len(calls) : calls[j].pc = "running" => j = i
    /\ \E a \in 1..Len(calls[i].received) : calls[i].received[a] = [callback |-> i]
    /\ callbacksLeft' = callbacksLeft - 1
    /\ calls' = [calls EXCEPT
                   ![i].promise = completionCallback(@, v),
                   ![i].callbackValues = Append(@, v),
                   ![i].first = IF @ = "none" THEN "callback" ELSE @]
    /\ UNCHANGED sp
    /\ UNCHANGED notPromiseVars

\* func throws before it returns, and promiseify catches the error
FuncThrows(i, e) ==
    /\ i \in 1..Len(calls)
    /\ calls[i].pc = "running"
    /\ calls' = [calls EXCEPT
                   ![i].pc = "thrown",
                   ![i].thrown = e,
                   ![i].promise = caught(@, e),
                   ![i].first = IF @ = "none" THEN "throw" ELSE @]
    /\ UNCHANGED <<sp, callbacksLeft>>
    /\ UNCHANGED notPromiseVars

\* func returns
FuncReturns(i) ==
    /\ i \in 1..Len(calls)
    /\ calls[i].pc = "running"
    /\ calls' = [calls EXCEPT ![i].pc = "returned"]
    /\ UNCHANGED <<sp, callbacksLeft>>
    /\ UNCHANGED notPromiseVars

\* the channel is set up: this.wrapScheduler()
WrapScheduler ==
    /\ sp # wrapScheduler(Scheduler)
    /\ sp' = wrapScheduler(Scheduler)
    /\ UNCHANGED <<calls, callbacksLeft>>
    /\ UNCHANGED notPromiseVars

PromiseInit ==
    /\ localFeedbackCache = EmptyCache
    /\ CacheOnlyIdle
    /\ FeedbackIdle
    /\ DebounceIdle
    /\ ConnIdle
    /\ TitleIdle
    /\ PushIdle
    /\ ResolveIdle
    /\ RetryIdle
    /\ sp = <<>>
    /\ calls = <<>>
    /\ callbacksLeft = MaxCallbacks

DoPromiseifiedCall ==
    \E k \in DOMAIN Scheduler : \E args \in ArgLists : PromiseifiedCall(k, args)
DoInvokeCallback == \E i \in 1..MaxCalls : \E v \in Replies : InvokeCallback(i, v)
DoFuncThrows == \E i \in 1..MaxCalls : \E e \in Errors : FuncThrows(i, e)
DoFuncReturns == \E i \in 1..MaxCalls : FuncReturns(i)

PromiseNext ==
    \/ WrapScheduler
    \/ DoPromiseifiedCall
    \/ DoInvokeCallback
    \/ DoFuncThrows
    \/ DoFuncReturns

SpecPromise == PromiseInit /\ [][PromiseNext]_vars

----------------------------------------------------------------------------
(* Claims about the wrapped scheduler *)

\* the arguments that are completion callbacks
CallbacksIn(received) ==
    {a \in 1..Len(received) : \E id \in 1..MaxCalls : received[a] = [callback |-> id]}

\* C9: every call through a wrapped scheduler method hands the method the
\* caller's arguments followed by exactly one completion callback; the promise
\* resolves with the value the callback receives, rejects with the error the
\* method throws before returning, settles at most once (the first of the two
\* outcomes stands), and stays pending as long as the callback has not been
\* invoked and nothing was thrown.
C9_PromiseifyContract ==
    /\ [](\A i \in 1..Len(calls) :
            LET c == calls[i]
            IN  /\ SubSeq(c.received, 1, Len(c.args)) = c.args
                /\ CallbacksIn(c.received) = {Len(c.args) + 1}
                /\ Len(c.received) = Len(c.args) + 1
                /\ c.first = "callback" =>
                       c.promise = [state |-> "resolved", value |-> c.callbackValues[1]]
                /\ c.first = "throw" =>
                       c.promise = [state |-> "rejected", value |-> c.thrown]
                /\ c.first = "none" => c.promise.state = "pending")
    /\ [][\A i \in 1..Len(calls) :
            calls[i].promise.state # "pending" => calls'[i].promise = calls[i].promise]_vars

\* a call resolved by the first of two different replies, and a call rejected
\* by the error its method threw
C9_Witness ==
    \E i, j \in 1..Len(calls) :
        /\ Len(calls[i].callbackValues) = 2
        /\ calls[i].callbackValues[1] # calls[i].callbackValues[2]
        /\ calls[i].promise = [state |-> "resolved", value |-> calls[i].callbackValues[1]]
        /\ Len(calls[i].args) = 2
        /\ calls[j].pc = "thrown"
        /\ calls[j].promise.state = "rejected"

----------------------------------------------------------------------------
(* The feedback state resolver: _handleFeedbackState *)

\* a string value of a state's property
S(x) == [str |-> x]

\* obj.hasOwnProperty(f), obj[f] and the truthiness of a value
HasOwn(obj, f) == f \in DOMAIN obj
Get(obj, f) == IF f \in DOMAIN obj THEN obj[f] ELSE Undefined
Truthy(v) == v # Undefined /\ v # S("")

\* this.images[`${name}`]
ImageNamed(imgs, name) ==
    IF name # Undefined /\ name.str \in DOMAIN imgs THEN S(imgs[name.str]) ELSE Undefined

\* the play state found for a query key: "unknown" without an entry or without
\* a playState property
PlayStateOf(states, key) ==
    IF key # Undefined /\ key.str \in DOMAIN states /\ "playState" \in DOMAIN states[key.str]
    THEN states[key.str].playState
    ELSE "unknown"

\* the overlayQueryKey branch of _handleFeedbackOverlayPlayStates
SelectOverlayImageName(state, states) ==
    IF ~HasOwn(state, "overlayQueryKey") THEN state
    ELSE LET p == PlayStateOf(states, state.overlayQueryKey)
             s1 == IF HasOwn(state, "overlayImageName_running")
                   THEN Without(IF p = "running"
                                THEN WithField(state, "overlayImageName",
                                               state.overlayImageName_running)
                                ELSE state,
                                "overlayImageName_running")
                   ELSE state
             s2 == IF HasOwn(s1, "overlayImageName_paused")
                   THEN Without(IF p = "paused"
                                THEN WithField(s1, "overlayImageName",
                                               s1.overlayImageName_paused)
                                ELSE s1,
                                "overlayImageName_paused")
                   ELSE s1
         IN  Without(s2, "overlayQueryKey")

\* the pngQueryKey branch: a running layer assigns png_running to itself
SelectPng(state, states) ==
    IF ~HasOwn(state, "pngQueryKey") THEN state
    ELSE LET p == PlayStateOf(states, state.pngQueryKey)
             s1 == IF HasOwn(state, "png_running")
                   THEN Without(IF p = "running"
                                THEN WithField(state, "png_running", state.png_running)
                                ELSE state,
                                "png_running")
                   ELSE state
             s2 == IF HasOwn(s1, "png_paused")
                   THEN Without(IF p = "paused"
                                THEN WithField(s1, "png", s1.png_paused)
                                ELSE s1,
                                "png_paused")
                   ELSE s1
         IN  Without(s2, "pngQueryKey")

\* the mutant of handleFeedbackOverlayPlayStates that leaves the query key behind
handleFeedbackOverlayPlayStatesKeepingKey(state, states) ==
    LET r == SelectPng(SelectOverlayImageName(state, states), states)
    IN  IF HasOwn(state, "overlayQueryKey")
        THEN WithField(r, "overlayQueryKey", state.overlayQueryKey)
        ELSE r

\* _handleFeedbackOverlayPlayStates(state), given the play states it awaited
handleFeedbackOverlayPlayStates(state, states) ==
    SelectPng(SelectOverlayImageName(state, states), states)

\* _handleFeedbackOverlayImage(state) up to its await: the state, the overlay
\* data, and whether the codec was started
handleFeedbackOverlayImage(state, imgs) ==
    IF HasOwn(state, "overlayImageName")
    THEN LET layer == ImageNamed(imgs, state.overlayImageName)
             s1 == Without(state, "overlayImageName")
         IN  IF ~Truthy(layer)
             THEN [state |-> s1, layer |-> layer, compositing |-> FALSE]
             ELSE IF HasOwn(s1, "png64")
             THEN [state |-> s1, layer |-> layer, compositing |-> TRUE]
             ELSE [state |-> WithField(s1, "png64", Undefined), layer |-> layer,
                   compositing |-> FALSE]
    ELSE IF HasOwn(state, "imageName")
    THEN [state |-> Without(WithField(state, "png64", ImageNamed(imgs, state.imageName)),
                            "imageName"),
          layer |-> Undefined, compositing |-> FALSE]
    ELSE [state |-> state, layer |-> Undefined, compositing |-> FALSE]

\* the codec: Jimp.read succeeds on the data of an image, and the composite of
\* the overlay on the base is encoded as base64
ValidImages == {S("base"), S("glowpng"), S("dimpng")}
Decodes(data) == data \in ValidImages
Composite(base, overlay) == [composite |-> <<base.str, overlay.str>>]

\* the promise _handleFeedbackOverlayImage awaits: a failed read resolves with
\* the state as it is, a failed encoding rejects
compositeOutcome(state, layer, encodeError) ==
    IF ~Decodes(state.png64)
    THEN [settled |-> "resolved", state |-> state, step |-> "baseDecodeFailed"]
    ELSE IF ~Decodes(layer)
    THEN [settled |-> "resolved", state |-> state, step |-> "overlayDecodeFailed"]
    ELSE IF encodeError
    THEN [settled |-> "rejected", state |-> state, step |-> "encodeFailed"]
    ELSE [settled |-> "resolved",
          state |-> WithField(state, "png64", Composite(state.png64, layer)),
          step |-> "composited"]

\* _handleFeedbackState, first part: the play states are folded in when a query
\* key is truthy
ResolvePlayStates ==
    /\ resolvePc = "start"
    /\ fbState' = IF Truthy(Get(fbState, "overlayQueryKey"))
                     \/ Truthy(Get(fbState, "pngQueryKey"))
                  THEN handleFeedbackOverlayPlayStates(fbState, playStates)
                  ELSE fbState
    /\ resolvePc' = "played"
    /\ UNCHANGED <<rawState, playStates, layerImageData, encoderFails, codecResult>>
    /\ UNCHANGED notResolveVars

\* _handleFeedbackState, second part: the image is looked up when an image name
\* is truthy
ResolveOverlayImage ==
    /\ resolvePc = "played"
    /\ LET named == Truthy(Get(fbState, "overlayImageName"))
                       \/ Truthy(Get(fbState, "imageName"))
           r == handleFeedbackOverlayImage(fbState, images)
       IN  /\ fbState' = IF named THEN r.state ELSE fbState
           /\ layerImageData' = IF named THEN r.layer ELSE layerImageData
           /\ resolvePc' = IF named /\ r.compositing THEN "compositing" ELSE "done"
    /\ UNCHANGED <<rawState, playStates, encoderFails, codecResult>>
    /\ UNCHANGED notResolveVars

\* the codec settles the promise, and _handleFeedbackState returns or rejects
CompositingSettles ==
    /\ resolvePc = "compositing"
    /\ LET r == compositeOutcome(fbState, layerImageData, encoderFails)
       IN  /\ fbState' = r.state
           /\ resolvePc' = IF r.settled = "resolved" THEN "done" ELSE "rejected"
           /\ codecResult' = r.step
    /\ UNCHANGED <<rawState, playStates, layerImageData, encoderFails>>
    /\ UNCHANGED notResolveVars

\* the raw states of the engine: each property absent or with one of its values
Absent == [absent |-> TRUE]
RawChoices ==
    [overlayQueryKey : {Absent, S("L1"), S("")},
     pngQueryKey : {Absent, S("L1")},
     overlayImageName_running : {Absent, S("glow")},
     overlayImageName_paused : {Absent, S("dim")},
     png_running : {Absent, S("runpng")},
     png_paused : {Absent, S("pausepng")},
     overlayImageName : {Absent, S("glow"), S("")},
     imageName : {Absent, S("glow")},
     png64 : {Absent, S("base"), S("junk")},
     png : {Absent, S("oldpng")}]
Present(c) == {f \in DOMAIN c : c[f] # Absent}
RawStates ==
    {[f \in Present(c) |-> c[f]] :
        c \in {d \in RawChoices : Cardinality(Present(d)) <= MaxRawFields}}

\* the layer states the engine reports, and the image sets requested from it
PlayStateReplies ==
    {[k \in {} |-> [playState |-> ""]],
     [k \in {"L1"} |-> [playState |-> "running"]],
     [k \in {"L1"} |-> [playState |-> "paused"]],
     [k \in {"L1"} |-> [playState |-> "stopped"]],
     [k \in {"L1"} |-> [visible |-> "yes"]]}
ResolverImageStores ==
    {[n \in {} |-> ""],
     [n \in {"glow", "dim"} |-> IF n = "glow" THEN "glowpng" ELSE "dimpng"],
     [n \in {"glow", "dim"} |-> IF n = "glow" THEN "junk" ELSE ""]}

ResolveInit ==
    /\ localFeedbackCache = EmptyCache
    /\ CacheOnlyIdle
    /\ pendingFeedbackChanges = {}
    /\ cacheMisses = <<>>
    /\ cacheBuilder = FALSE
    /\ checkerTimers = 0
    /\ batches = <<>>
    /\ batchFailures = <<>>
    /\ images \in ResolverImageStores
    /\ checkRequested = FALSE
    /\ fbOp = NoFbOp
    /\ budget = 0
    /\ DebounceIdle
    /\ ConnIdle
    /\ TitleIdle
    /\ PushIdle
    /\ PromiseIdle
    /\ RetryIdle
    /\ rawState \in RawStates
    /\ fbState = rawState
    /\ playStates \in PlayStateReplies
    /\ layerImageData = Undefined
    /\ encoderFails \in BOOLEAN
    /\ codecResult = "none"
    /\ resolvePc = "start"

ResolveNext == ResolvePlayStates \/ ResolveOverlayImage \/ CompositingSettles

SpecResolve == ResolveInit /\ [][ResolveNext]_vars

----------------------------------------------------------------------------
(* Claims about the resolver *)

\* the scenario: {overlayQueryKey: L1, overlayImageName_running: glow, png64: base},
\* layer L1 running, image glow in the store with the data of an image
ScenarioRaw ==
    [overlayQueryKey |-> S("L1"), overlayImageName_running |-> S("glow"),
     png64 |-> S("base")]
InScenario ==
    /\ rawState = ScenarioRaw
    /\ PlayStateOf(playStates, S("L1")) = "running"
    /\ "glow" \in DOMAIN images
    /\ Decodes(S(images["glow"]))

\* C10 (as claimed): the scenario resolves to a state with overlayImageName
\* equal to 'glow', without overlayQueryKey and overlayImageName_running, and
\* with png64 the composite of the overlay on the base.
C10_ScenarioKeepsOverlayName ==
    (InScenario /\ resolvePc = "done") =>
        /\ HasOwn(fbState, "overlayImageName")
        /\ Get(fbState, "overlayImageName") = S("glow")
        /\ ~HasOwn(fbState, "overlayQueryKey")
        /\ ~HasOwn(fbState, "overlayImageName_running")
        /\ Get(fbState, "png64") = Composite(S("base"), S(images["glow"]))

\* C10 (amended): the scenario resolves to a state in which overlayImageName is
\* absent (the name selected for the running layer is consumed by the overlay
\* step), overlayQueryKey and overlayImageName_running are absent, and png64 is
\* the composite of the overlay on the base; the resolution yields no state
\* only when the codec fails to encode the composite.
C10_ScenarioResolves ==
    InScenario =>
        /\ resolvePc = "done" =>
              /\ ~HasOwn(fbState, "overlayImageName")
              /\ ~HasOwn(fbState, "overlayQueryKey")
              /\ ~HasOwn(fbState, "overlayImageName_running")
              /\ Get(fbState, "png64") = Composite(S("base"), S(images["glow"]))
        /\ resolvePc = "played" => Get(fbState, "overlayImageName") = S("glow")
        /\ resolvePc = "rejected" => encoderFails

\* the scenario resolved, with the composite under png64
C10_Witness ==
    /\ InScenario
    /\ resolvePc = "done"
    /\ fbState = [png64 |-> Composite(S("base"), S("glowpng"))]

\* C11 (as claimed): whenever the compositing fails at one of its steps (the
\* base image does not decode, the overlay does not decode, or the composite
\* is not encoded), the resolution still completes without raising and the
\* state it returns has the input base image under png64.
C11_CompositingFailureDegrades ==
    codecResult \in {"baseDecodeFailed", "overlayDecodeFailed", "encodeFailed"} =>
        /\ resolvePc = "done"
        /\ Get(fbState, "png64") = Get(rawState, "png64")

\* the same for the two decoding steps alone, which the code does degrade
C11_DecodeFailureDegrades ==
    codecResult \in {"baseDecodeFailed", "overlayDecodeFailed"} =>
        /\ resolvePc = "done"
        /\ Get(fbState, "png64") = Get(rawState, "png64")

----------------------------------------------------------------------------
(* Claims about the rebuild and its refills *)

\* the steps that invoke rebuild, and the steps in which a refill settles
RebuildOps == {"handleFeedback", "checkerTick"}
RefillOps == {"refillSucceeds", "refillFails"}

\* a refill settles, and checkFeedbacks is called exactly when it was the last
\* one of its rebuild not yet settled
CheckAfterLastRefill ==
    fbOp'.name \in RefillOps =>
        /\ fbOp'.checked <=> Len(batches') < Len(batches)
        /\ \E b \in 1..Len(batches) :
              /\ Len(batches[b]) = 1 <=> fbOp'.checked
              /\ \E i \in 1..Len(batches[b]) : batches' = SettleIn(batches, b, i)

\* C12 (as claimed): every rebuild that drains a non-empty worklist has
\* checkFeedbacks called exactly once on its behalf, after all the refills it
\* started have settled and not before, whatever ids the drained misses carry:
\* also when none of them is a feedback id, so that it starts no refill.
C12_CheckOncePerRebuild ==
    [][/\ (fbOp'.name \in RebuildOps /\ fbOp'.rebuilt) =>
              IF Len(fbOp'.issued) > 0
              THEN ~fbOp'.checked /\ batches' = Append(batches, fbOp'.issued)
              ELSE fbOp'.checked
       /\ CheckAfterLastRefill]_vars

\* C12 (amended): every rebuild that starts at least one refill (a drained miss
\* with a feedback id) has checkFeedbacks called exactly once on its behalf,
\* when the last of its refills settles and not before; a rebuild whose drained
\* misses carry no feedback id starts no refill and has checkFeedbacks not
\* called.
C12_CheckOncePerQueryingRebuild ==
    [][/\ (fbOp'.name \in RebuildOps /\ fbOp'.rebuilt) =>
              /\ ~fbOp'.checked
              /\ batches' = IF Len(fbOp'.issued) > 0
                            THEN Append(batches, fbOp'.issued)
                            ELSE batches
       /\ CheckAfterLastRefill]_vars

\* a refill settled while another of the same rebuild was outstanding, so that
\* checkFeedbacks was not called yet
C12_Witness ==
    /\ fbOp.name \in RefillOps
    /\ ~fbOp.checked
    /\ Len(batches) > 0

\* the misses a refill can be issued for
RefillableMisses == {<<JoinIds(<<"A">>, FeedbackShapedId), o>> : o \in FbOptions}

C13_RetriedWithoutPolls ==
    \A q \in RefillableMisses :
        (q \in failedRefills) ~>
            (q \notin failedRefills
             \/ cacheGetFromFullId(localFeedbackCache, q[1], q[2]) # Undefined)

C14_FailureLeavesSiblings ==
    [][/\ fbOp'.name = "refillFails" =>
              /\ localFeedbackCache' = localFeedbackCache
              /\ \E b \in 1..Len(batches) : \E i \in 1..Len(batches[b]) :
                    /\ batches[b][i].id = fbOp'.id
                    /\ batches' = SettleIn(batches, b, i)
       /\ fbOp'.name = "refillSucceeds" =>
              LET key == makeCacheKeyUsingOptions(fbOp'.id, fbOp'.options)
              IN  /\ DOMAIN localFeedbackCache' = DOMAIN localFeedbackCache \cup {key}
                  /\ localFeedbackCache'[key] = fbOp'.result
                  /\ \A k \in DOMAIN localFeedbackCache \ {key} :
                        localFeedbackCache'[k] = localFeedbackCache[k]]_vars

\* a refill succeeded and stored its state after another refill of the same
\* rebuild had failed
C14_Witness ==
    /\ fbOp.name = "refillSucceeds"
    /\ fbOp.failedBefore > 0
    /\ cacheGetFromFullId(localFeedbackCache, fbOp.id, fbOp.options) = fbOp.result

----------------------------------------------------------------------------
(* The title registry: getCurrentTitles, handleNotification and setVar *)

\* toLowerCase, then replace(/[^a-zA-Z0-9]/g, '_'), character by character
LowerCase(c) == IF c = "A" THEN "a" ELSE c
AlphaNumerics == {"a", "x", "y"}
Sanitize(str) ==
    [i \in 1..Len(str) |->
        IF LowerCase(str[i]) \in AlphaNumerics THEN LowerCase(str[i]) ELSE "_"]

\* makeVarDefinition(title, varname).variableId
makeVarDefinition(title, varname) == Sanitize(title.name \o <<"_", "_">> \o varname)

\* Array.prototype.reverse
Reverse(seq) == [i \in 1..Len(seq) |-> seq[Len(seq) + 1 - i]]

\* the object a loop of assignments obj[e[field]] = e leaves, for the
\* elements of the array g in order: the last one of each key wins
IndexBy(list, g, field) ==
    [k \in {list[i][field] : i \in 1..Len(list)} |->
        <<g, CHOOSE i \in 1..Len(list) :
                /\ list[i][field] = k
                /\ \A j \in (i + 1)..Len(list) : list[j][field] # k>>]

\* getCurrentTitles, the loop over title.variables from position j on; reg
\* holds varData, varValues, varDefinitions and varnames, and the title is
\* element t of the array g, whose value is ts
RECURSIVE AddVariables(_, _, _, _, _)
AddVariables(reg, ts, g, t, j) ==
    IF j > Len(ts[t].variables) THEN reg
    ELSE LET variable == ts[t].variables[j]
             def == makeVarDefinition(ts[t], variable.variable)
         IN  AddVariables(
                 [varData |-> WithField(reg.varData, def,
                                  [title |-> <<g, t>>, varname |-> variable.variable,
                                   value |-> variable.value]),
                  varValues |-> WithField(reg.varValues, def, variable.value),
                  varDefinitions |-> Append(reg.varDefinitions, def),
                  varnames |-> reg.varnames \cup {variable.variable}],
                 ts, g, t, j + 1)

\* getCurrentTitles, the loop over this.titles from position t on
RECURSIVE AddTitles(_, _, _, _)
AddTitles(reg, ts, g, t) ==
    IF t > Len(ts) THEN reg
    ELSE AddTitles(AddVariables(reg, ts, g, t, 1), ts, g, t + 1)

\* [...varnames.values()] sorted
NameOrder == <<<<"x">>, <<"y">>>>
SortedNames(varnames) ==
    LET in(n) == n \in varnames IN SelectSeq(NameOrder, in)

\* the first position of list whose variable is name, or 0
FirstNamed(list, name) ==
    IF \E j \in 1..Len(list) : list[j].variable = name
    THEN CHOOSE j \in 1..Len(list) :
            /\ list[j].variable = name
            /\ \A i \in 1..(j - 1) : list[i].variable # name
    ELSE 0

\* the title object a reference leads to
TitleAt(objects, ref) == objects[ref[1]][ref[2]]

\* the arrays of objects something still refers to: this.titles and the
\* titles of the entries of data
AliveObjects(objects, current, data) ==
    [g \in {current} \cup {data[k].title[1] : k \in DOMAIN data} |-> objects[g]]

\* the key of a new array of objects
NewArray(objects) == CHOOSE g \in 1..(Cardinality(DOMAIN objects) + 1) : g \notin DOMAIN objects

\* setVar({title, name, value}) on the registry reg (titleObjects, varData,
\* varValues, consoleValues), title being a reference to a title object
setVar(reg, ref, name, value) ==
    LET varid == makeVarDefinition(TitleAt(reg.titleObjects, ref), name)
        has == varid \in DOMAIN reg.varData
        title == IF has THEN reg.varData[varid].title ELSE ref
        first == FirstNamed(TitleAt(reg.titleObjects, title).variables, name)
    IN  [varData |-> IF has THEN [reg.varData EXCEPT ![varid].value = value]
                     ELSE reg.varData,
         varValues |-> IF has THEN WithField(reg.varValues, varid, value)
                       ELSE reg.varValues,
         consoleValues |-> WithField(reg.consoleValues, varid, value),
         titleObjects |->
             IF first = 0 THEN reg.titleObjects
             ELSE [reg.titleObjects EXCEPT
                      ![title[1]][title[2]].variables[first].value = value]]

\* handleNotification, the loop over variables from position i on
RECURSIVE SetVars(_, _, _, _)
SetVars(reg, ref, variables, i) ==
    IF i > Len(variables) THEN reg
    ELSE SetVars(setVar(reg, ref, variables[i].name, variables[i].value),
                 ref, variables, i + 1)

\* a reply or a message JSON.parse throws on
Unparsable == [unparsable |-> TRUE]

\* getCurrentTitles up to its await: the registry's variables are emptied and
\* the command is sent
GetCurrentTitlesCall ==
    /\ titleCallsLeft > 0
    /\ titleCallsLeft' = titleCallsLeft - 1
    /\ UNCHANGED titleEventsLeft
    /\ varData' = <<>>
    /\ varValues' = <<>>
    /\ titleObjects' = AliveObjects(titleObjects, titles, varData')
    /\ titleRequests' = titleRequests + 1
    /\ titleOp' = [NoTitleOp EXCEPT !.name = "getCurrentTitles",
                                    !.awaiting = titleRequests]
    /\ UNCHANGED <<titles, titlesByName, titlesById, variableNames,
                   consoleDefinitions, consoleValues>>
    /\ UNCHANGED notTitleVars

\* getCurrentTitles from the reply on: the registry is rebuilt from the
\* reply, or the parse error is logged and thrown. (The array this.titles
\* held is reversed and dropped; its objects stay where they are referred to.)
GetCurrentTitlesReply(reply) ==
    /\ titleRequests > 0
    /\ titleRequests' = titleRequests - 1
    /\ titleOp' = [NoTitleOp EXCEPT !.name = "titlesReply", !.msg = reply,
                                    !.awaiting = titleRequests - 1]
    /\ IF reply = Unparsable
       THEN UNCHANGED <<titleObjects, titles, titlesByName, titlesById, variableNames,
                        varData, varValues, consoleDefinitions, consoleValues>>
       ELSE LET ts == Reverse(IF "titles" \in DOMAIN reply THEN reply.titles ELSE <<>>)
                g == NewArray(titleObjects)
                reg == AddTitles([varData |-> varData, varValues |-> varValues,
                                  varDefinitions |-> <<>>, varnames |-> {}], ts, g, 1)
            IN  /\ titles' = g
                /\ titleObjects' =
                      AliveObjects([k \in DOMAIN titleObjects \cup {g} |->
                                       IF k = g THEN ts ELSE titleObjects[k]],
                                   g, reg.varData)
                /\ titlesByName' = IndexBy(ts, g, "name")
                /\ titlesById' = IndexBy(ts, g, "id")
                /\ variableNames' = SortedNames(reg.varnames)
                /\ varData' = reg.varData
                /\ varValues' = reg.varValues
                /\ consoleDefinitions' =
                      {reg.varDefinitions[i] : i \in 1..Len(reg.varDefinitions)}
                /\ consoleValues' =
                      [k \in DOMAIN consoleValues \cup DOMAIN reg.varValues |->
                          IF k \in DOMAIN reg.varValues THEN reg.varValues[k]
                          ELSE consoleValues[k]]
    /\ UNCHANGED <<titleCallsLeft, titleEventsLeft>>
    /\ UNCHANGED notTitleVars

\* handleNotification: a data event for a known title sets each variable it
\* lists; anything else, and any error, is ignored
HandleNotification(msg) ==
    /\ titleEventsLeft > 0
    /\ titleEventsLeft' = titleEventsLeft - 1
    /\ LET known == /\ msg # Unparsable
                    /\ msg.event = "data"
                    /\ titlesById # Undefined
                    /\ msg.id \in DOMAIN titlesById
       IN  /\ titleOp' = [name |-> "notification", msg |-> msg, known |-> known,
                          awaiting |-> titleRequests]
           /\ IF known
              THEN LET reg == SetVars([titleObjects |-> titleObjects,
                                       varData |-> varData, varValues |-> varValues,
                                       consoleValues |-> consoleValues],
                                      titlesById[msg.id], msg.variables, 1)
                   IN  /\ titleObjects' = reg.titleObjects
                       /\ varData' = reg.varData
                       /\ varValues' = reg.varValues
                       /\ consoleValues' = reg.consoleValues
              ELSE UNCHANGED <<titleObjects, varData, varValues, consoleValues>>
    /\ UNCHANGED <<titles, titlesByName, titlesById, variableNames,
                   consoleDefinitions, titleRequests, titleCallsLeft>>
    /\ UNCHANGED notTitleVars

\* the inputs of the title operations
TitleIds == {"t1", "t2"}
TitleNames == {<<"A">>, <<"a">>}
VarNames == {<<"x">>, <<"y">>}
Values == {"v1", "v2"}
TitleVariableLists ==
    {<<[variable |-> <<"x">>, value |-> "v1"]>>,
     <<[variable |-> <<"x">>, value |-> "v1"], [variable |-> <<"y">>, value |-> "v1"]>>}
TitleObjects == [id : TitleIds, name : TitleNames, variables : TitleVariableLists]
TitleLists ==
    {ts \in UNION {[1..n -> TitleObjects] : n \in 0..MaxTitles} :
        \A i, j \in 1..Len(ts) : ts[i].id = ts[j].id => i = j}
TitleReplies == {Unparsable, <<>>} \cup {[titles |-> ts] : ts \in TitleLists}
EventVariables == [name : VarNames, value : Values]
Notifications ==
    {Unparsable} \cup
    [event : {"data", "play"}, id : TitleIds,
     variables : UNION {[1..n -> EventVariables] : n \in 0..MaxEventVars}]

TitleInit ==
    /\ localFeedbackCache = EmptyCache
    /\ CacheOnlyIdle
    /\ FeedbackIdle
    /\ DebounceIdle
    /\ ConnIdle
    /\ PromiseIdle
    /\ PushIdle
    /\ ResolveIdle
    /\ RetryIdle
    /\ titleObjects = <<<<>>>>
    /\ titles = 1
    /\ titlesByName = <<>>
    /\ titlesById = Undefined
    /\ variableNames = <<>>
    /\ varData = <<>>
    /\ varValues = Undefined
    /\ consoleDefinitions = {}
    /\ consoleValues = <<>>
    /\ titleRequests = 0
    /\ titleOp = NoTitleOp
    /\ titleCallsLeft = MaxTitleCalls
    /\ titleEventsLeft = MaxTitleEvents

DoGetCurrentTitlesReply == \E reply \in TitleReplies : GetCurrentTitlesReply(reply)
DoHandleNotification == \E msg \in Notifications : HandleNotification(msg)

TitleNext ==
    \/ GetCurrentTitlesCall
    \/ DoGetCurrentTitlesReply
    \/ DoHandleNotification

SpecTitles == TitleInit /\ [][TitleNext]_vars

----------------------------------------------------------------------------
(* Claims about the title registry *)

\* the value the event msg carries last for the variable name
LastValueFor(msg, name) ==
    LET i == CHOOSE i \in 1..Len(msg.variables) :
                 /\ msg.variables[i].name = name
                 /\ \A j \in (i + 1)..Len(msg.variables) : msg.variables[j].name # name
    IN  msg.variables[i].value

\* the data event handled last was for a known title, and these are the
\* variables of that title it names
NamedVariables ==
    IF titleOp.name = "notification" /\ titleOp.known
    THEN {n \in {titleOp.msg.variables[i].name : i \in 1..Len(titleOp.msg.variables)} :
             FirstNamed(TitleAt(titleObjects, titlesById[titleOp.msg.id]).variables,
                        n) # 0}
    ELSE {}

\* the registry and the console hold the event's value for the variable n
HoldsEventValue(n) ==
    LET varid == makeVarDefinition(TitleAt(titleObjects, titlesById[titleOp.msg.id]), n)
        value == LastValueFor(titleOp.msg, n)
    IN  /\ varid \in DOMAIN varData
        /\ varData[varid].value = value
        /\ varid \in DOMAIN consoleValues
        /\ consoleValues[varid] = value

\* C15: after a data event for a known title id is handled, the varData entry
\* of every variable of that title the event names holds the event's value, and
\* the same value was sent to the console; at every moment, also while
\* getCurrentTitles awaits its reply.
C15_DataEventUpdatesRegistry ==
    \A n \in NamedVariables : HoldsEventValue(n)

\* the same for the events handled while no getCurrentTitles is awaiting its
\* reply and varData has an entry for every variable of every title
RegistryComplete ==
    /\ titleRequests = 0
    /\ \A t \in 1..Len(titleObjects[titles]) :
          \A j \in 1..Len(titleObjects[titles][t].variables) :
              makeVarDefinition(titleObjects[titles][t],
                                titleObjects[titles][t].variables[j].variable)
                  \in DOMAIN varData
C15_DataEventUpdatesCompleteRegistry ==
    RegistryComplete => \A n \in NamedVariables : HoldsEventValue(n)

----------------------------------------------------------------------------
(* Claims about the sockets and the reconnection watchdog *)

\* the sockets created and not closed: connecting, or open
LiveSockets == {s \in 1..MaxSockets : sockets[s].state \in {"connecting", "open"}}

\* C16: at any time at most one socket of the bridge is connecting or open,
\* whatever configUpdated calls, watchdog ticks and socket events came.
C16_AtMostOneConnection == Cardinality(LiveSockets) <= 1

\* the step handles the 'error', the 'close' or the 'open' event of a socket
ErrorHandled == \E s \in 1..MaxSockets : ~sockets[s].errored /\ sockets'[s].errored
CloseHandled == \E s \in LiveSockets : sockets'[s].state = "free"
OpenHandled ==
    \E s \in 1..MaxSockets : sockets[s].state = "connecting" /\ sockets'[s].state = "open"

\* an armed watchdog stays armed until a socket's 'open' event
ArmedUntilOpen == (connectionWatchdog /\ ~connectionWatchdog') => OpenHandled

\* C17: when a socket emits 'error' or 'close' and no reconnection timer is
\* armed, handling the event arms one, and an armed timer stays armed until a
\* socket's 'open' event.
C17_FailureArmsWatchdog ==
    [][/\ ((ErrorHandled \/ CloseHandled) /\ ~connectionWatchdog) =>
              (connectionWatchdog' /\ watchdogTimers' = watchdogTimers + 1)
       /\ ArmedUntilOpen]_vars

\* the same for the 'close' event alone, which is the one that arms the timer
C17_CloseArmsWatchdog ==
    [][/\ (CloseHandled /\ ~connectionWatchdog) =>
              (connectionWatchdog' /\ watchdogTimers' = watchdogTimers + 1)
       /\ ArmedUntilOpen]_vars

\* C18: while some socket is open the reconnection watchdog is not armed.
C18_NoWatchdogWhileOpen ==
    (\E s \in 1..MaxSockets : sockets[s].state = "open") =>
        (~connectionWatchdog /\ watchdogTimers = 0)

\* the same in the behaviours that never hold two sockets at once
C18_NoWatchdogWhileOnlyOneOpen ==
    [](Cardinality(LiveSockets) <= 1) => []C18_NoWatchdogWhileOpen

----------------------------------------------------------------------------
(* The two timers together: the feedback operations and the connection
   events interleaved *)

TimersInit ==
    /\ localFeedbackCache = EmptyCache
    /\ CacheOnlyIdle
    /\ DebounceIdle
    /\ TitleIdle
    /\ PushIdle
    /\ PromiseIdle
    /\ ResolveIdle
    /\ RetryIdle
    /\ pendingFeedbackChanges = {}
    /\ cacheMisses = <<>>
    /\ cacheBuilder = FALSE
    /\ checkerTimers = 0
    /\ batches = <<>>
    /\ batchFailures = <<>>
    /\ images = [n \in {} |-> ""]
    /\ checkRequested = FALSE
    /\ fbOp = NoFbOp
    /\ budget = MaxTimerEvents
    /\ config = [bonjour_host |-> FALSE, host |-> FALSE, port |-> FALSE,
                 needsNewConfig |-> FALSE]
    /\ status = "none"
    /\ connectionWatchdog = FALSE
    /\ watchdogTimers = 0
    /\ sockets = [s \in 1..MaxTimerSockets |-> FreeSocket]
    /\ failuresLeft = MaxTimerFailures
    /\ configsLeft = MaxTimerConfigs
    /\ recovering = FALSE
    /\ operatorConfig = config

\* the polls, with one options object, and the refills, with one reply
TimerHandleFeedback == \E id \in CompositeIds : HandleFeedback(id, <<>>, "boolean")
TimerRefillSucceeds ==
    \E b \in 1..MaxTimerEvents, i \in 1..(MaxTimerEvents + 1) :
        RefillSucceeds(b, i, [value |-> TRUE])
TimerRefillFails ==
    \E b \in 1..MaxTimerEvents, i \in 1..(MaxTimerEvents + 1) : RefillFails(b, i)

\* the socket events of the sockets there are
TimerSocketOpen == \E s \in 1..MaxTimerSockets : SocketOpen(s)
TimerChannelReady == \E s \in 1..MaxTimerSockets : ChannelReady(s)
TimerHandshakeReply == \E s \in 1..MaxTimerSockets : HandshakeReply(s)
TimerSocketError == \E s \in 1..MaxTimerSockets : SocketError(s)
TimerSocketClose == \E s \in 1..MaxTimerSockets : SocketClose(s)

TimersNext ==
    \/ TimerHandleFeedback
    \/ CheckerTick
    \/ TimerRefillSucceeds
    \/ TimerRefillFails
    \/ DoConfigUpdated
    \/ WatchdogTick
    \/ TimerSocketOpen
    \/ TimerChannelReady
    \/ TimerHandshakeReply
    \/ TimerSocketError
    \/ TimerSocketClose

SpecTimers == TimersInit /\ [][TimersNext]_vars

----------------------------------------------------------------------------
(* Claims about the staleness marks *)

\* C20: a staleness mark set by a feedback-change push stays set until a
\* refill of a rebuild for that key has succeeded and stored its result: the
\* only step that removes a mark is the successful refill of a query for the
\* marked id, so that a failed refill, and a rebuild that drains a miss with or
\* without issuing a query, leave the mark set.
C20_MarkKeptUntilRefilled ==
    [][\A id \in pendingFeedbackChanges \ pendingFeedbackChanges' :
          /\ fbOp'.name = "refillSucceeds"
          /\ fbOp'.id = id
          /\ cacheGetFromFullId(localFeedbackCache', id, fbOp'.options) = fbOp'.result]_vars

\* the marks are sets of ids the pushes named, and a settling refill, failed
\* or successful, changes none: what the code does keep
C20_RefillsLeaveMarks ==
    [][fbOp'.name \in RefillOps => pendingFeedbackChanges' = pendingFeedbackChanges]_vars

----------------------------------------------------------------------------
(* Claims about the play-state variants *)

\* the play status looked up for the query key the raw state carries in f
LookedUp(f) == PlayStateOf(playStates, Get(rawState, f))

\* the play states were folded in: the state _handleFeedbackOverlayPlayStates
\* returned is in fbState
PlayStatesFolded ==
    /\ resolvePc = "played"
    /\ Truthy(Get(rawState, "overlayQueryKey")) \/ Truthy(Get(rawState, "pngQueryKey"))

\* for the family with query key `key`, variants `running` and `paused` and
\* target field `target`: the variant of the looked-up status is selected
VariantSelected(key, running, paused, target) ==
    /\ (HasOwn(rawState, key) /\ LookedUp(key) = "running" /\ HasOwn(rawState, running))
           => Get(fbState, target) = rawState[running]
    /\ (HasOwn(rawState, key) /\ LookedUp(key) = "paused" /\ HasOwn(rawState, paused))
           => Get(fbState, target) = rawState[paused]

\* the variant fields and the query key of the family are gone
VariantsDiscarded(key, running, paused) ==
    HasOwn(rawState, key) =>
        /\ ~HasOwn(fbState, key)
        /\ ~HasOwn(fbState, running)
        /\ ~HasOwn(fbState, paused)

\* C24: the selection works the same for both families: with the looked-up
\* status running or paused and that variant carried, overlayImageName (resp.
\* png) of the state the play-state step returns equals the variant's value,
\* and in every case neither the variant fields nor the query key are left.
C24_VariantSelectionBothFamilies ==
    PlayStatesFolded =>
        /\ VariantSelected("overlayQueryKey", "overlayImageName_running",
                           "overlayImageName_paused", "overlayImageName")
        /\ VariantSelected("pngQueryKey", "png_running", "png_paused", "png")
        /\ VariantsDiscarded("overlayQueryKey", "overlayImageName_running",
                             "overlayImageName_paused")
        /\ VariantsDiscarded("pngQueryKey", "png_running", "png_paused")

\* the same without the selection of the png family: what the code does
C24_OverlaySelectionAndDiscard ==
    PlayStatesFolded =>
        /\ VariantSelected("overlayQueryKey", "overlayImageName_running",
                           "overlayImageName_paused", "overlayImageName")
        /\ (HasOwn(rawState, "pngQueryKey") /\ LookedUp("pngQueryKey") = "paused"
               /\ HasOwn(rawState, "png_paused"))
              => Get(fbState, "png") = rawState.png_paused
        /\ VariantsDiscarded("overlayQueryKey", "overlayImageName_running",
                             "overlayImageName_paused")
        /\ VariantsDiscarded("pngQueryKey", "png_running", "png_paused")

----------------------------------------------------------------------------
(* Claims about what handleFeedback leaves alone *)

\* C25: handleFeedback does not change the cache: the keys and every cached
\* value are the same after the call as before it. On a hit whose entry
\* carries imageName the value looked up is a copy without imageName, with
\* png64 set to the image of that name when the image store holds one, and
\* with the entry's other fields; on a miss no entry is added.
C25_HandleFeedbackKeepsCache ==
    [][fbOp'.name = "handleFeedback" =>
          LET entry == cacheGetFromFullId(localFeedbackCache, fbOp'.id, fbOp'.options)
              result == handleFeedbackResult(localFeedbackCache, images, fbOp'.id,
                                             fbOp'.options)
          IN  /\ localFeedbackCache' = localFeedbackCache
              /\ fbOp'.result = CoerceResult(fbOp'.type, result)
              /\ (entry # Undefined /\ "imageName" \in DOMAIN entry) =>
                    /\ "imageName" \notin DOMAIN result
                    /\ entry.imageName \in DOMAIN images =>
                          result.png64 = images[entry.imageName]
                    /\ \A f \in DOMAIN entry \ {"imageName", "png64"} :
                          f \in DOMAIN result /\ result[f] = entry[f]
                    /\ cacheGetFromFullId(localFeedbackCache', fbOp'.id, fbOp'.options)
                          = entry
              /\ entry = Undefined =>
                    cacheGetFromFullId(localFeedbackCache', fbOp'.id, fbOp'.options)
                        = Undefined]_vars

\* a poll hit an entry carrying imageName and returned the image's data, the
\* cached entry still carrying imageName
C25_Witness ==
    /\ fbOp.name = "handleFeedback"
    /\ fbOp.type = "advanced"
    /\ fbOp.result # Undefined
    /\ "png64" \in DOMAIN fbOp.result
    /\ "imageName" \notin DOMAIN fbOp.result
    /\ "imageName" \in DOMAIN cacheGetFromFullId(localFeedbackCache, fbOp.id, fbOp.options)


----------------------------------------------------------------------------
(* Claims about startCacheChecker on an empty worklist *)

\* the step is a call of startCacheChecker that found the worklist empty: the
\* end of a handleFeedback that recorded no miss, or a tick of the timer
CalledOnEmptyWorklist ==
    /\ fbOp'.name \in {"handleFeedback", "checkerTick"}
    /\ ~fbOp'.rebuilt

\* the timeouts armed when startCacheChecker is entered: the one whose firing
\* is the call is no longer armed
ArmedAtCall == IF fbOp'.name = "checkerTick" THEN checkerTimers - 1 ELSE checkerTimers

\* what a call on an empty worklist leaves alone apart from the timer
EmptyCallKeepsData ==
    /\ localFeedbackCache' = localFeedbackCache
    /\ cacheMisses' = cacheMisses
    /\ cacheMisses = <<>>
    /\ pendingFeedbackChanges' = pendingFeedbackChanges
    /\ batches' = batches
    /\ fbOp'.issued = <<>>

\* C23: a call of startCacheChecker while the miss worklist is empty is a
\* no-op: the cache, the worklist, the staleness marks and the armed or unarmed
\* state of the checker timer are the same after the call as before it, and no
\* query is issued
C23_EmptyWorklistNoOp ==
    [][CalledOnEmptyWorklist =>
          /\ EmptyCallKeepsData
          /\ (checkerTimers' > 0) = (ArmedAtCall > 0)]_vars

\* what the code does instead: the data are left alone and no query is issued,
\* but stopCacheChecker has run first, so that no timer is armed after the call
C23_EmptyWorklistStopsTimer ==
    [][CalledOnEmptyWorklist =>
          /\ EmptyCallKeepsData
          /\ checkerTimers' = 0
          /\ cacheBuilder' = FALSE]_vars


----------------------------------------------------------------------------
(* The feedback-change handler and the refills, with their awaits *)

\* the feedback followed: one feedback of one actor, with one options object
PushActor == <<"A">>
PushOptions == <<>>
PushId == JoinIds(PushActor, FeedbackShapedId)

\* the states the engine holds for it: one that resolves without an await, one
\* that needs the play states, one whose overlay is composited on its image
PushStates ==
    {[value |-> TRUE],
     [pngQueryKey |-> S("L1"), png_paused |-> S("pausepng")],
     [overlayImageName |-> S("glow"), png64 |-> S("base")]}

\* _handleFeedbackState, its first condition: the play states are asked for
AsksPlayStates(state) ==
    Truthy(Get(state, "overlayQueryKey")) \/ Truthy(Get(state, "pngQueryKey"))

\* _handleFeedbackState from the reply with the play states (or from its start
\* when they were not asked for) up to the await of the codec
AfterPlayStates(state, asked, states, imgs) ==
    LET s1 == IF asked THEN handleFeedbackOverlayPlayStates(state, states) ELSE state
    IN  IF Truthy(Get(s1, "overlayImageName")) \/ Truthy(Get(s1, "imageName"))
        THEN handleFeedbackOverlayImage(s1, imgs)
        ELSE [state |-> s1, layer |-> Undefined, compositing |-> FALSE]

\* the resolved form of a raw state: what _handleFeedbackState returns for it
Resolved(state, states, imgs) ==
    LET r == AfterPlayStates(state, AsksPlayStates(state), states, imgs)
    IN  IF r.compositing THEN compositeOutcome(r.state, r.layer, FALSE).state
        ELSE r.state

notPushVars == <<cacheOnlyVars, debounceVars, connVars, promiseVars, resolveVars,
                 retryVars, titleVars>>

\* the feedback-change handler after its await: the resolved state is stored,
\* the id marked stale, the console asked to check
PushStored(t, state) ==
    /\ localFeedbackCache' = cacheStoreInto(localFeedbackCache, PushActor,
                                            FeedbackShapedId, PushOptions, state)
    /\ pendingFeedbackChanges' = pendingFeedbackChanges \cup {PushId}
    /\ checkRequested' = TRUE
    /\ fbOp' = [NoFbOp EXCEPT !.name = "feedbackChangeEvent", !.id = PushId,
                   !.options = PushOptions, !.result = state, !.checked = TRUE]
    /\ pushStores' = Append(pushStores, t.n)
    /\ UNCHANGED <<cacheMisses, cacheBuilder, checkerTimers, batches, batchFailures,
                   images, budget>>

\* the .then of a refill: every rebuild here holds one query, for the one key
RefillStored(state) ==
    /\ RefillSucceedsStep(1, 1, state)
    /\ UNCHANGED pushStores

\* the await of _handleFeedbackState returns to the handler or to the refill
Settle(t, state) ==
    IF t.kind = "push" THEN PushStored(t, state) ELSE RefillStored(state)

\* a handler or refill left suspended on an await: the module's fields stay
Suspended == UNCHANGED <<localFeedbackCache, feedbackVars, pushStores>>

\* _handleFeedbackState called by the handler or refill t: it runs up to its
\* first await that waits for something, or to its end
Begin(t) ==
    IF AsksPlayStates(t.state)
    THEN /\ requests' = Append(requests, "getValueForKey")
         /\ tasks' = Append(tasks, [t EXCEPT !.pc = "rpc"])
         /\ Suspended
    ELSE LET r == AfterPlayStates(t.state, FALSE, playStates, images)
         IN  /\ requests' = requests
             /\ IF r.compositing
                THEN /\ tasks' = Append(tasks, [t EXCEPT !.pc = "codec",
                                                  !.state = r.state, !.layer = r.layer])
                     /\ Suspended
                ELSE /\ tasks' = tasks
                     /\ Settle(t, r.state)

\* the engine changes the state of the feedback and pushes a notification
EngineChanges(st) ==
    /\ changesLeft > 0
    /\ st # engineState
    /\ engineState' = st
    /\ changesLeft' = changesLeft - 1
    /\ wire' = Append(wire, [type |-> "push", state |-> st])
    /\ UNCHANGED <<requests, tasks, arrivals>>
    /\ Suspended
    /\ UNCHANGED notPushVars

\* the engine answers the request it received first, with its state of now
EngineAnswers ==
    /\ Len(requests) > 0
    /\ requests' = Tail(requests)
    /\ wire' = Append(wire, IF Head(requests) = "query"
                            THEN [type |-> "queryReply", state |-> engineState]
                            ELSE [type |-> "playStates", state |-> Undefined])
    /\ UNCHANGED <<engineState, changesLeft, tasks, arrivals>>
    /\ Suspended
    /\ UNCHANGED notPushVars

\* a notification arrives: the feedback-change handler begins
PushArrives ==
    /\ Len(wire) > 0
    /\ Head(wire).type = "push"
    /\ wire' = Tail(wire)
    /\ arrivals' = arrivals + 1
    /\ Begin([kind |-> "push", n |-> arrivals + 1, state |-> Head(wire).state,
              layer |-> Undefined, pc |-> "start"])
    /\ UNCHANGED <<engineState, changesLeft>>
    /\ UNCHANGED notPushVars

\* the reply to a query arrives: _queryFeedbackState parses it and resolves it
QueryReplyArrives ==
    /\ Len(wire) > 0
    /\ Head(wire).type = "queryReply"
    /\ wire' = Tail(wire)
    /\ Begin([kind |-> "refill", n |-> 0, state |-> Head(wire).state,
              layer |-> Undefined, pc |-> "start"])
    /\ UNCHANGED <<engineState, changesLeft, arrivals>>
    /\ UNCHANGED notPushVars

\* the play states arrive: they answer the getValueForKey sent first
PlayStatesArrive ==
    /\ Len(wire) > 0
    /\ Head(wire).type = "playStates"
    /\ wire' = Tail(wire)
    /\ \E i \in 1..Len(tasks) :
          /\ tasks[i].pc = "rpc"
          /\ \A j \in 1..(i - 1) : tasks[j].pc # "rpc"
          /\ LET r == AfterPlayStates(tasks[i].state, TRUE, playStates, images)
             IN  IF r.compositing
                 THEN /\ tasks' = [tasks EXCEPT ![i] = [@ EXCEPT !.pc = "codec",
                                                          !.state = r.state,
                                                          !.layer = r.layer]]
                      /\ Suspended
                 ELSE /\ tasks' = RemoveAt(tasks, i)
                      /\ Settle(tasks[i], r.state)
    /\ UNCHANGED <<engineState, changesLeft, requests, arrivals>>
    /\ UNCHANGED notPushVars

\* the codec settles the promise one of the suspended resolutions awaits
CodecSettles(i) ==
    /\ i \in 1..Len(tasks)
    /\ tasks[i].pc = "codec"
    /\ tasks' = RemoveAt(tasks, i)
    /\ Settle(tasks[i], compositeOutcome(tasks[i].state, tasks[i].layer, FALSE).state)
    /\ UNCHANGED <<engineState, changesLeft, wire, requests, arrivals>>
    /\ UNCHANGED notPushVars

\* the queries a rebuild issued go to the engine
QueriesSent == requests \o [q \in 1..Len(fbOp'.issued) |-> "query"]

\* the console polls the feedback: when it was created, and after checkFeedbacks
PushPoll ==
    /\ budget > 0
    /\ checkRequested \/ budget = MaxPushPolls
    /\ budget' = budget - 1
    /\ HandleFeedbackCall(PushId, PushOptions, "advanced")
    /\ requests' = QueriesSent
    /\ UNCHANGED <<engineState, changesLeft, wire, tasks, arrivals, pushStores>>
    /\ UNCHANGED notPushVars

\* the timeout of the cache checker fires
PushCheckerTick ==
    /\ CheckerTickStep
    /\ requests' = QueriesSent
    /\ UNCHANGED <<engineState, changesLeft, wire, tasks, arrivals, pushStores>>
    /\ UNCHANGED notPushVars

PushInit ==
    /\ localFeedbackCache = EmptyCache
    /\ CacheOnlyIdle
    /\ DebounceIdle
    /\ ConnIdle
    /\ TitleIdle
    /\ PromiseIdle
    /\ RetryIdle
    /\ pendingFeedbackChanges = {}
    /\ cacheMisses = <<>>
    /\ cacheBuilder = FALSE
    /\ checkerTimers = 0
    /\ batches = <<>>
    /\ batchFailures = <<>>
    /\ images = [n \in {"glow"} |-> "glowpng"]
    /\ checkRequested = FALSE
    /\ fbOp = NoFbOp
    /\ budget = MaxPushPolls
    /\ rawState = <<>>
    /\ fbState = <<>>
    /\ playStates \in {[k \in {"L1"} |-> [playState |-> "running"]],
                       [k \in {"L1"} |-> [playState |-> "paused"]]}
    /\ layerImageData = Undefined
    /\ encoderFails = FALSE
    /\ codecResult = "none"
    /\ resolvePc = "none"
    /\ engineState \in PushStates
    /\ changesLeft = MaxChanges
    /\ wire = <<>>
    /\ requests = <<>>
    /\ tasks = <<>>
    /\ arrivals = 0
    /\ pushStores = <<>>

DoEngineChanges == \E st \in PushStates : EngineChanges(st)
DoCodecSettles == \E i \in 1..(MaxChanges + MaxPushPolls) : CodecSettles(i)

PushNext ==
    \/ DoEngineChanges
    \/ EngineAnswers
    \/ PushArrives
    \/ QueryReplyArrives
    \/ PlayStatesArrive
    \/ DoCodecSettles
    \/ PushPoll
    \/ PushCheckerTick

SpecPush == PushInit /\ [][PushNext]_vars


----------------------------------------------------------------------------
(* Claims about the order of pushes and their race with refills *)

\* the cache entry of the feedback followed
PushEntry == cacheGetFrom(localFeedbackCache, PushActor, FeedbackShapedId, PushOptions)

\* no notification is on its way and no feedback-change handler is suspended
NoPushInFlight ==
    /\ \A i \in 1..Len(wire) : wire[i].type # "push"
    /\ \A i \in 1..Len(tasks) : tasks[i].kind # "push"

\* C21: push notifications for one key take effect in arrival order: the store
\* for an earlier notification happens before the store for a later one,
\* whether or not resolving either suspends on an RPC or on the codec, so that
\* once two or more have been handled (and no refill stored anything) the cache
\* holds the resolved state of the last one
C21_PushesStoredInArrivalOrder ==
    /\ \A i, j \in 1..Len(pushStores) : i < j => pushStores[i] < pushStores[j]
    /\ (arrivals >= 2 /\ NoPushInFlight /\ budget = MaxPushPolls)
          => PushEntry = Resolved(engineState, playStates, images)

\* nothing is in flight: no message, no request, no suspended handler or
\* refill, no unsettled rebuild, no miss to rebuild, no poll or tick due
Quiescent ==
    /\ wire = <<>>
    /\ requests = <<>>
    /\ tasks = <<>>
    /\ batches = <<>>
    /\ cacheMisses = <<>>
    /\ ~checkRequested
    /\ checkerTimers = 0

\* C22: a push and a refill racing for one key converge: when the engine has
\* stopped changing the feedback and every handler and refill has completed,
\* the cache entry is the resolved form of the engine's current state
C22_RaceConverges ==
    (Quiescent /\ PushEntry # Undefined)
        => PushEntry = Resolved(engineState, playStates, images)


\* what holds instead: an entry left behind the engine's state is one that a
\* resolution suspended on the codec stored late; resolutions that wait for
\* replies of the engine only are overtaken by nothing
C22_StaleOnlyAfterCodec ==
    (Quiescent /\ PushEntry # Undefined
       /\ PushEntry # Resolved(engineState, playStates, images))
        => \E st \in PushStates :
              /\ AfterPlayStates(st, AsksPlayStates(st), playStates, images).compositing
              /\ PushEntry = Resolved(st, playStates, images)

====
